---------------------------- MODULE Spec2Model ----------------------------
(***************************************************************************)
(* Bank reconciliation app: the result sanitizer of reconcileFiles, the    *)
(* session state of App (handleReconcile / handleReset) and the review     *)
(* overlay of ReconciliationResults / DetailedReport (selection sets,      *)
(* status maps, search and status filter), the top list of Dashboard and   *)
(* the document export of generatePdf.                                     *)
(*                                                                         *)
(* Conventions of the model                                                *)
(*  - a JS string is a sequence of one-character strings;                  *)
(*  - a JS number is an integer count of hundredths (25 is 2500);          *)
(*  - a JS object is a function from its own keys; reading a key that is   *)
(*    not there gives Undefined, reading a key of undefined throws;        *)
(*  - a JS array is a sequence, but positional indices (the keys of the    *)
(*    overlay maps) are the 0-based indices of the code;                   *)
(*  - null / "no value" of a React state is the empty sequence None, a     *)
(*    value x is Some(x).                                                  *)
(***************************************************************************)
EXTENDS Integers, Sequences, FiniteSets, TLC

VARIABLES
    rawResult,              \* reconcileFiles: JSON.parse(response.text)
    outcome,                \* reconcileFiles: what the try block produced
    bankStatement,          \* App state: a bank statement file is chosen
    ledger,                 \* App state: a ledger file is chosen
    result,                 \* App state: ReconciliationResult | null
    isLoading,              \* App state
    error,                  \* App state: string | null
    pc,                     \* where the pending handleReconcile is
    activeTab,              \* ReconciliationResults state
    searchTerm,             \* ReconciliationResults state
    statusFilter,           \* DetailedReport state
    selectedBankIndices,    \* ReconciliationResults state
    selectedLedgerIndices,  \* ReconciliationResults state
    bankStatuses,           \* ReconciliationResults state
    ledgerStatuses,         \* ReconciliationResults state
    showConfirmDialog,      \* ReconciliationResults state
    showExportModal,        \* ReconciliationResults state
    exportConfig,           \* ReconciliationResults state: PdfExportConfig
    pdf,                    \* the document generatePdf saved last
    csv,                    \* the text generateCsv handed over last
    lastOp,                 \* history: the handler that ran last
    trip                    \* history: the last non-default bulk status call

sanVars == <<rawResult, outcome>>
appVars == <<bankStatement, ledger, result, isLoading, error, pc>>
overlayVars == <<activeTab, searchTerm, statusFilter, selectedBankIndices,
                 selectedLedgerIndices, bankStatuses, ledgerStatuses,
                 showConfirmDialog>>
exportVars == <<showExportModal, exportConfig, pdf, csv>>
histVars == <<lastOp, trip>>
vars == <<sanVars, appVars, overlayVars, exportVars, histVars>>

---------------------------------------------------------------------------
(* Values *)

None == <<>>
Some(x) == <<x>>

\* The empty object {} / the empty Record<number, status>.
EmptyObj == [k \in {} |-> 0]

\* delete obj[k] on a copy / restriction of an object to some keys.
Restrict(f, keys) == [k \in (DOMAIN f) \cap keys |-> f[k]]

\* { ...obj, [k]: v }
Assign(f, k, v) == [x \in (DOMAIN f) \cup {k} |-> IF x = k THEN v ELSE f[x]]

\* JSON values that can stand where a number is expected.
JNum(n) == [t |-> "num", n |-> n, s |-> <<>>]
JStr(s) == [t |-> "str", n |-> 0, s |-> s]
JNull == [t |-> "null", n |-> 0, s |-> <<>>]
JBool == [t |-> "bool", n |-> 0, s |-> <<>>]
Undefined == [t |-> "undefined", n |-> 0, s |-> <<>>]

\* obj.k for an object obj
Get(obj, k) == IF k \in DOMAIN obj THEN obj[k] ELSE Undefined

Abs(n) == IF n < 0 THEN -n ELSE n

Digit == {"0", "1", "2", "3", "4", "5", "6", "7", "8", "9"}

DigitVal(c) ==
    CASE c = "0" -> 0 [] c = "1" -> 1 [] c = "2" -> 2 [] c = "3" -> 3
      [] c = "4" -> 4 [] c = "5" -> 5 [] c = "6" -> 6 [] c = "7" -> 7
      [] c = "8" -> 8 [] c = "9" -> 9

DigitChar(d) ==
    CASE d = 0 -> "0" [] d = 1 -> "1" [] d = 2 -> "2" [] d = 3 -> "3"
      [] d = 4 -> "4" [] d = 5 -> "5" [] d = 6 -> "6" [] d = 7 -> "7"
      [] d = 8 -> "8" [] d = 9 -> "9"


---------------------------------------------------------------------------
(* parseFloat, as far as the strings of the model go: leading blanks, an   *)
(* optional sign, digits, an optional fraction; the longest such prefix    *)
(* is the number, and there is none when it holds no digit.  Exponents     *)
(* and "Infinity" are not in the alphabet of the model, and a fraction     *)
(* keeps its first two digits (the strings of the model have no more).     *)

NaN == [nan |-> TRUE, n |-> 0]
Number(n) == [nan |-> FALSE, n |-> n]

RECURSIVE SkipWhite(_, _)
SkipWhite(s, i) ==
    IF i <= Len(s) /\ s[i] = " " THEN SkipWhite(s, i + 1) ELSE i

\* the index after the run of digits that starts at i
RECURSIVE DigitRun(_, _)
DigitRun(s, i) ==
    IF i <= Len(s) /\ s[i] \in Digit THEN DigitRun(s, i + 1) ELSE i

\* the value of the digits s[i] .. s[j-1]
RECURSIVE DigitsValue(_, _, _)
DigitsValue(s, i, j) ==
    IF i >= j THEN 0 ELSE DigitsValue(s, i, j - 1) * 10 + DigitVal(s[j - 1])

parseFloatString(s) ==
    LET a == SkipWhite(s, 1)
        neg == a <= Len(s) /\ s[a] = "-"
        b == IF a <= Len(s) /\ s[a] \in {"-", "+"} THEN a + 1 ELSE a
        c == DigitRun(s, b)
        hasDot == c <= Len(s) /\ s[c] = "."
        d == IF hasDot THEN DigitRun(s, c + 1) ELSE c
        nInt == c - b
        nFrac == IF hasDot THEN d - (c + 1) ELSE 0
        frac == (IF nFrac >= 1 THEN 10 * DigitVal(s[c + 1]) ELSE 0)
                + (IF nFrac >= 2 THEN DigitVal(s[c + 2]) ELSE 0)
        mag == DigitsValue(s, b, c) * 100 + frac
    IN  IF nInt + nFrac = 0 THEN NaN
        ELSE Number(IF neg THEN -mag ELSE mag)

\* parseFloat(val): val is turned into a string first; the string of a
\* number parses back to that number, and "null", "true", "false",
\* "undefined" do not start with a numeral.
parseFloat(val) ==
    CASE val.t = "num" -> Number(val.n)
      [] val.t = "str" -> parseFloatString(val.s)
      [] OTHER -> NaN

\* x || 0 for a number x: NaN and 0 are falsy.
NumberOrZero(p) == IF p.nan \/ p.n = 0 THEN 0 ELSE p.n

\* const parseAmount = (val: any) => Math.abs(parseFloat(val) || 0);
parseAmountNoAbs(val) == NumberOrZero(parseFloat(val))
parseAmount(val) == Abs(NumberOrZero(parseFloat(val)))

---------------------------------------------------------------------------
(* reconcileFiles, from JSON.parse on: sanitization and recalculation *)

TypeErrorMessage ==
    "Cannot read properties of undefined (reading 'amount')"
FailedPrefix == "Reconciliation failed: "

\* the message of the Error that the catch block of reconcileFiles throws
failedMessageNoPrefix(cause) == <<cause>>
failedMessage(cause) == <<FailedPrefix, cause>>

\* { ...t, amount: parseAmount(t.amount) }
sanitizeTransaction(t) == Assign(t, "amount", parseAmount(Get(t, "amount")))

\* p.bankTransaction.amount / p.ledgerTransaction.amount is read of a
\* sub-object that is not there
pairThrows(p) ==
    \/ "bankTransaction" \notin DOMAIN p
    \/ "ledgerTransaction" \notin DOMAIN p

sanitizePair(p) ==
    [bankTransaction |-> sanitizeTransaction(p.bankTransaction),
     ledgerTransaction |-> sanitizeTransaction(p.ledgerTransaction)]

\* (rawResult.k || [])
OrEmpty(raw, k) == IF k \in DOMAIN raw THEN raw[k] ELSE <<>>

\* amounts.reduce((s, a) => s + a, s0), over the amounts the callback reads
RECURSIVE reduce(_, _)
reduce(amounts, s) ==
    IF amounts = <<>> THEN s ELSE reduce(Tail(amounts), s + Head(amounts))

\* matchedTransactions.reduce((s, i) => s + i.bankTransaction.amount, 0)
matchedTotalOfLedgerLeg(matched) ==
    reduce([i \in 1..Len(matched) |-> matched[i].ledgerTransaction.amount], 0)
matchedTotalOf(matched) ==
    reduce([i \in 1..Len(matched) |-> matched[i].bankTransaction.amount], 0)

\* xs.reduce((s, i) => s + i.amount, 0)
unmatchedTotalOf(xs) == reduce([i \in 1..Len(xs) |-> xs[i].amount], 0)

\* the six recomputed fields of summary
recomputed(matched, bank, ledgerEntries) ==
    [matchedCount |-> Len(matched),
     unmatchedBankCount |-> Len(bank),
     unmatchedLedgerCount |-> Len(ledgerEntries),
     matchedTotal |-> matchedTotalOf(matched),
     unmatchedBankTotal |-> unmatchedTotalOf(bank),
     unmatchedLedgerTotal |-> unmatchedTotalOf(ledgerEntries)]

\* { ...rawResult.summary, matchedCount: ..., ... }: the recomputed fields
\* override, every other field of the raw summary is kept
summaryOfRecomputedOnly(raw, matched, bank, ledgerEntries) ==
    recomputed(matched, bank, ledgerEntries)
summaryOfSpreadLast(raw, matched, bank, ledgerEntries) ==
    (IF "summary" \in DOMAIN raw THEN raw.summary ELSE EmptyObj)
        @@ recomputed(matched, bank, ledgerEntries)
summaryOf(raw, matched, bank, ledgerEntries) ==
    recomputed(matched, bank, ledgerEntries)
        @@ (IF "summary" \in DOMAIN raw THEN raw.summary ELSE EmptyObj)

Returned(v) == [status |-> "returned", value |-> <<v>>, message |-> <<>>]
Threw(msg) == [status |-> "threw", value |-> <<>>, message |-> msg]
NotRun == [status |-> "none", value |-> <<>>, message |-> <<>>]

\* lines 130-161 on a parsed response
sanitize(raw) ==
    LET rawMatched == OrEmpty(raw, "matchedTransactions")
        rawBank == OrEmpty(raw, "unmatchedBankTransactions")
        rawLedger == OrEmpty(raw, "unmatchedLedgerEntries")
    IN  IF \E i \in 1..Len(rawMatched) : pairThrows(rawMatched[i])
        THEN Threw(failedMessage(TypeErrorMessage))
        ELSE LET matched == [i \in 1..Len(rawMatched) |->
                                sanitizePair(rawMatched[i])]
                 bank == [i \in 1..Len(rawBank) |->
                                sanitizeTransaction(rawBank[i])]
                 ledgerEntries == [i \in 1..Len(rawLedger) |->
                                sanitizeTransaction(rawLedger[i])]
             IN  Returned(
                    [summary |-> summaryOf(raw, matched, bank, ledgerEntries),
                     matchedTransactions |-> matched,
                     unmatchedBankTransactions |-> bank,
                     unmatchedLedgerEntries |-> ledgerEntries])

---------------------------------------------------------------------------
(* The raw responses the sanitizer is run on *)

\* the most items (pairs and transactions together) of a raw response
MaxItems == 2

Str3500 == <<"3", "5", "0", "0", ".", "0", "0">>
StrNeg12 == <<"-", "1", "2", ".", "5", "x">>
StrBlank7 == <<" ", "7">>
StrAbc == <<"a", "b", "c">>

DateA == <<"2", "0", "2", "4", "-", "0", "3", "-", "0", "5">>
DateB == <<"2", "0", "2", "4", "-", "0", "3", "-", "1", "0">>
DescAcme == <<"A", "c", "m", "e">>
DescFee == <<"F", "e", "e">>
DescRent == <<"R", "e", "n", "t">>
Date2024 == <<"2", "0", "2", "4", "-", "0", "3", "-", "3", "1">>

\* what a raw transaction may carry as its amount
RawAmounts ==
    {JNum(2500), JNum(-350000), JNum(0), JStr(Str3500), JStr(StrNeg12),
     JStr(StrBlank7), JStr(StrAbc), JStr(<<>>), JNull, JBool}

TxNoAmount == [date |-> DateB, description |-> DescFee, type |-> "debit"]

\* raw transactions: with each amount, and with no amount at all
RawTransactions ==
    {TxNoAmount} \cup {Assign(TxNoAmount, "amount", a) : a \in RawAmounts}

\* the legs of the raw pairs (a smaller choice of amounts)
RawLegs ==
    {[date |-> DateA, description |-> DescAcme, type |-> "credit"]}
    \cup {Assign([date |-> DateA, description |-> DescAcme, type |-> "credit"],
                 "amount", a) :
            a \in {JNum(-350000), JNum(2500), JStr(Str3500)}}

\* raw pairs: both legs, one leg, no leg
RawPairs ==
    {[bankTransaction |-> b, ledgerTransaction |-> l] : b, l \in RawLegs}
    \cup {[bankTransaction |-> b] : b \in RawLegs}
    \cup {[ledgerTransaction |-> l] : l \in RawLegs}
    \cup {EmptyObj}

\* raw summaries: the three fields the schema asks for, the same with
\* counts and totals of the service's own, or only a date
RawSummaries ==
    {[ledgerBalance |-> 707950, bankBalance |-> 707950, asAtDate |-> Date2024],
     [ledgerBalance |-> 500000, bankBalance |-> 499998, asAtDate |-> Date2024,
      matchedCount |-> 99, unmatchedBankCount |-> 7, unmatchedLedgerCount |-> 7,
      matchedTotal |-> -1, unmatchedBankTotal |-> 12345,
      unmatchedLedgerTotal |-> 1],
     [asAtDate |-> Date2024]}

TopKeys ==
    {"summary", "matchedTransactions", "unmatchedBankTransactions",
     "unmatchedLedgerEntries"}

\* the raw object with the given collections, without the keys in absent
RawObject(m, b, l, s, absent) ==
    Restrict([summary |-> s, matchedTransactions |-> m,
              unmatchedBankTransactions |-> b, unmatchedLedgerEntries |-> l],
             TopKeys \ absent)

InitSanitize ==
    /\ \E i \in 0..MaxItems : \E j \in 0..(MaxItems - i) :
       \E k \in 0..(MaxItems - i - j) :
       \E m \in [1..i -> RawPairs], b \in [1..j -> RawTransactions],
          l \in [1..k -> RawTransactions], s \in RawSummaries,
          absent \in SUBSET TopKeys :
            /\ "matchedTransactions" \in absent => i = 0
            /\ "unmatchedBankTransactions" \in absent => j = 0
            /\ "unmatchedLedgerEntries" \in absent => k = 0
            /\ "summary" \in absent => s = [asAtDate |-> Date2024]
            /\ rawResult = RawObject(m, b, l, s, absent)
    /\ outcome = NotRun

\* the sanitizer runs once on the parsed response
Sanitize ==
    /\ outcome = NotRun
    /\ outcome' = sanitize(rawResult)
    /\ UNCHANGED <<rawResult, appVars, overlayVars, exportVars, histVars>>

---------------------------------------------------------------------------
(* String helpers of the review filter *)

\* s.includes(t)
includes(s, t) ==
    \E i \in 0..(Len(s) - Len(t)) : SubSeq(s, i + 1, i + Len(t)) = t

\* toLowerCase, on the letters of the model
lowerChar(c) ==
    CASE c = "A" -> "a" [] c = "C" -> "c" [] c = "E" -> "e" [] c = "F" -> "f"
      [] c = "R" -> "r" [] OTHER -> c

toLowerCase(s) == [i \in 1..Len(s) |-> lowerChar(s[i])]

RECURSIVE IntToString(_)
IntToString(k) ==
    IF k < 10 THEN <<DigitChar(k)>>
    ELSE Append(IntToString(k \div 10), DigitChar(k % 10))

\* String(amount) for an amount >= 0 held in hundredths: no fraction when
\* it is whole, no trailing zero otherwise
NumberToString(n) ==
    LET whole == IntToString(n \div 100)
        f == n % 100
    IN  IF f = 0 THEN whole
        ELSE IF f % 10 = 0 THEN whole \o <<".", DigitChar(f \div 10)>>
        ELSE whole \o <<".", DigitChar(f \div 10), DigitChar(f % 10)>>

---------------------------------------------------------------------------
(* DetailedReport: the filtered views, as sets of positional indices *)

\* const matchesSearch = !searchTerm || description... || date... || amount...
matchesSearchCaseSensitive(tx, term) ==
    \/ term = <<>>
    \/ /\ "description" \in DOMAIN tx
       /\ includes(tx.description, term)
    \/ /\ "date" \in DOMAIN tx
       /\ includes(tx.date, term)
    \/ includes(NumberToString(tx.amount), term)
matchesSearch(tx, term) ==
    \/ term = <<>>
    \/ /\ "description" \in DOMAIN tx
       /\ includes(toLowerCase(tx.description), toLowerCase(term))
    \/ /\ "date" \in DOMAIN tx
       /\ includes(tx.date, term)
    \/ includes(NumberToString(tx.amount), term)

\* statuses[idx] || 'default'
currentStatus(statuses, idx) ==
    IF idx \in DOMAIN statuses THEN statuses[idx] ELSE "default"

\* the idx of items.map((tx, idx) => ({tx, idx})).filter(...)
filteredIndices(items, statuses, term, filter) ==
    {idx \in 0..(Len(items) - 1) :
        /\ matchesSearch(items[idx + 1], term)
        /\ (filter = "all" \/ currentStatus(statuses, idx) = filter)}

theResult == result[1]

filteredUnmatchedBank ==
    filteredIndices(theResult.unmatchedBankTransactions, bankStatuses,
                    searchTerm, statusFilter)

filteredUnmatchedLedger ==
    filteredIndices(theResult.unmatchedLedgerEntries, ledgerStatuses,
                    searchTerm, statusFilter)

---------------------------------------------------------------------------
(* The review handlers as functions of the state they read *)

\* toggleBankSelection / toggleLedgerSelection
toggleSelectionOnlyAdds(selected, idx) == selected \cup {idx}
toggleSelection(selected, idx) ==
    IF idx \in selected THEN selected \ {idx} ELSE selected \cup {idx}

\* selectAllUnmatchedBank / selectAllUnmatchedLedger: the sizes are compared
selectAllNeverClears(selected, visible) == visible
selectAllWholeCollection(selected, visible) ==
    visible \cup (0..(Len(theResult.unmatchedBankTransactions) - 1))
selectAll(selected, visible) ==
    IF Cardinality(selected) = Cardinality(visible) /\ Cardinality(visible) > 0
    THEN {}
    ELSE visible

\* clearSingleBankStatus / clearSingleLedgerStatus
clearSingleStatusDropsAll(statuses, idx) == EmptyObj
clearSingleStatus(statuses, idx) ==
    Restrict(statuses, (DOMAIN statuses) \ {idx})

\* the next map of applyBulkStatus: every selected idx is deleted from a
\* copy (status 'default') or set in it
bulkStatusesDropsAll(statuses, selected, status) ==
    IF status = "default"
    THEN EmptyObj
    ELSE [idx \in (DOMAIN statuses) \cup selected |->
            IF idx \in selected THEN status ELSE statuses[idx]]
bulkStatusesNoDelete(statuses, selected, status) ==
    [idx \in (DOMAIN statuses) \cup selected |->
        IF idx \in selected THEN status ELSE statuses[idx]]
bulkStatusesFirstOnly(statuses, selected, status) ==
    LET first == {CHOOSE idx \in selected :
                    \A other \in selected : idx <= other}
    IN  IF status = "default"
        THEN Restrict(statuses, (DOMAIN statuses) \ first)
        ELSE [idx \in (DOMAIN statuses) \cup first |->
                IF idx \in first THEN status ELSE statuses[idx]]
bulkStatuses(statuses, selected, status) ==
    IF status = "default"
    THEN Restrict(statuses, (DOMAIN statuses) \ selected)
    ELSE [idx \in (DOMAIN statuses) \cup selected |->
            IF idx \in selected THEN status ELSE statuses[idx]]

---------------------------------------------------------------------------
(* History: which handler ran last, and the last non-default bulk call *)

\* streak: 1 for a select-all that found its selection set empty, 2 for
\* the select-all of the same collection right after such a one
Op(op, type, status, idx, streak) ==
    [op |-> op, type |-> type, status |-> status, idx |-> idx,
     streak |-> streak]

NoOp == Op("none", "-", "-", -1, 0)

\* a handler that is not a review handler
Did(op) == lastOp' = Op(op, "-", "-", -1, 0)

selectAllStreak(type, selected) ==
    IF selected = {} THEN 1
    ELSE IF lastOp.op = "selectAll" /\ lastOp.type = type /\ lastOp.streak = 1
         THEN 2
         ELSE 0

\* the round trip that a non-default bulk call on `selected` opens: the
\* entries of the other indices as they were before the call
OpenTrip(type, statuses, selected) ==
    Some([type |-> type, indices |-> selected, phase |-> "open",
          others |-> Restrict(statuses, (DOMAIN statuses) \ selected)])

\* a closed trip is history as soon as the next handler runs
KeepTrip ==
    trip' = IF trip # None /\ trip[1].phase = "closed" THEN None ELSE trip

\* a handler that sets the status map of collection `type` ends the trip
EndTrip(type) ==
    trip' = IF trip # None /\ (trip[1].type = type \/ trip[1].phase = "closed")
            THEN None ELSE trip

\* the trip after the Reset button: closed when the open trip's collection
\* gets 'default' on the very indices of the trip, ended when that
\* collection's map is set otherwise
TripAfterReset(selBank, selLedger) ==
    IF trip = None THEN None
    ELSE LET sel == IF trip[1].type = "bank" THEN selBank ELSE selLedger
         IN  IF trip[1].phase = "closed" THEN None
             ELSE IF sel = {} THEN trip
             ELSE IF sel = trip[1].indices
                  THEN Some([trip[1] EXCEPT !.phase = "closed"])
                  ELSE None

---------------------------------------------------------------------------
(* The responses of the external call *)

\* the most unmatched bank items of a response
MaxBank == 2

DescAcmeCorp == <<"A", "c", "m", "e", " ", "C", "o", "r", "p">>
DescRefund == <<"R", "e", "f", "u", "n", "d">>
DescCheque == <<"C", "h", "e", "q", "u", "e">>
Str1200 == <<"1", "2", "0", "0", ".", "5", "0">>

BankPool ==
    <<[date |-> DateB, description |-> DescFee, amount |-> JNum(2500),
       type |-> "debit"],
      [date |-> DateB, description |-> DescRent, amount |-> JStr(Str1200),
       type |-> "debit"],
      [date |-> DateA, description |-> DescRefund, amount |-> JNum(-2500),
       type |-> "credit"],
      [date |-> DateA, description |-> DescFee, amount |-> JNum(0),
       type |-> "debit"]>>

\* a well-formed response with n unmatched bank items
SampleRaw(n) ==
    [summary |-> [ledgerBalance |-> 707950, bankBalance |-> 707950,
                  asAtDate |-> Date2024],
     matchedTransactions |->
        <<[bankTransaction |->
              [date |-> DateA, description |-> DescAcme,
               amount |-> JStr(Str3500), type |-> "credit"],
           ledgerTransaction |->
              [date |-> DateA, description |-> DescAcmeCorp,
               amount |-> JNum(-350000), type |-> "debit"]]>>,
     unmatchedBankTransactions |-> SubSeq(BankPool, 1, n),
     unmatchedLedgerEntries |->
        <<[date |-> DateB, description |-> DescCheque,
           amount |-> JNum(4000), type |-> "credit"]>>]

\* a response whose only pair has no ledgerTransaction
MalformedRaw ==
    [matchedTransactions |->
        <<[bankTransaction |->
              [date |-> DateA, description |-> DescAcme,
               amount |-> JNum(350000), type |-> "credit"]]>>]

ParsedResponses == {SampleRaw(n) : n \in 0..MaxBank} \cup {MalformedRaw}

NetworkCause == "fetch failed"
SyntaxCause == "Unexpected token < in JSON at position 0"
FileCause == "file could not be read"

---------------------------------------------------------------------------
(* Dashboard *)

\* Array.prototype.sort((a, b) => b.amount - a.amount) is stable: tx goes
\* behind every element that is not smaller
RECURSIVE insertByAmount(_, _)
insertByAmount(sorted, tx) ==
    IF sorted = <<>> THEN <<tx>>
    ELSE IF sorted[Len(sorted)].amount >= tx.amount
         THEN Append(sorted, tx)
         ELSE Append(insertByAmount(SubSeq(sorted, 1, Len(sorted) - 1), tx),
                     sorted[Len(sorted)])

RECURSIVE sortByAmount(_)
sortByAmount(xs) ==
    IF xs = <<>> THEN <<>>
    ELSE insertByAmount(sortByAmount(SubSeq(xs, 1, Len(xs) - 1)), xs[Len(xs)])

\* slice(0, 5)
slice5(xs) == SubSeq(xs, 1, IF Len(xs) < 5 THEN Len(xs) ELSE 5)

\* the five largest unmatched items, bank items before ledger entries
topUnmatchedLedgerFirst(r) ==
    slice5(sortByAmount(r.unmatchedLedgerEntries
                        \o r.unmatchedBankTransactions))
topUnmatched(r) ==
    slice5(sortByAmount(r.unmatchedBankTransactions
                        \o r.unmatchedLedgerEntries))

\* the result prop after Dashboard has run: sort works on the array that
\* the spread made, so the prop is as it was
DashboardSortsInPlace(r) ==
    [r EXCEPT !.unmatchedBankTransactions = sortByAmount(@)]
Dashboard(r) == r

\* the result prop after ReconciliationResults has rendered with tab active
rendered(r, tab) == IF tab = "dashboard" THEN Dashboard(r) ELSE r

---------------------------------------------------------------------------
(* generatePdf: the document as the sequence of its sections *)

pad3(k) ==
    <<DigitChar(k \div 100), DigitChar((k \div 10) % 10), DigitChar(k % 10)>>

\* the grouping of Intl.NumberFormat('en-GH'): 1,200
RECURSIVE groupThousands(_)
groupThousands(k) ==
    IF k < 1000 THEN IntToString(k)
    ELSE groupThousands(k \div 1000) \o <<",">> \o pad3(k % 1000)

\* `GHS ${format(amount)}` with exactly two fraction digits
formatCurrencyForPdf(n) ==
    <<"G", "H", "S", " ">> \o groupThousands(n \div 100)
        \o <<".", DigitChar((n % 100) \div 10), DigitChar(n % 10)>>

\* formatCurrency of ReconciliationResults.tsx and, word for word, of
\* Dashboard.tsx: Intl.NumberFormat('en-GH', {style: 'currency',
\* currency: 'GHS'}), the symbol GH followed by the cedi sign (written C
\* here), grouped, two fraction digits
formatCurrency(n) ==
    <<"G", "H", "C">> \o groupThousands(n \div 100)
        \o <<".", DigitChar((n % 100) \div 10), DigitChar(n % 10)>>

\* xs.filter((_, i) => selected.has(i))
RECURSIVE filterSelected(_, _)
filterSelectedKeepsAll(xs, selected) == xs
filterSelected(xs, selected) ==
    IF xs = <<>> THEN <<>>
    ELSE LET rest == filterSelected(SubSeq(xs, 1, Len(xs) - 1), selected)
         IN  IF (Len(xs) - 1) \in selected
             THEN Append(rest, xs[Len(xs)])
             ELSE rest

\* bankList / ledgerList; handlePdfExport always passes the Sets, and a
\* Set is truthy also when it is empty
exportList(xs, config, selected) ==
    IF config.onlySelectedItems THEN filterSelected(xs, selected) ELSE xs

\* a heading `${number}. ${title} (${count})${tag}` and the table under it
Section(number, title, count, filtered, rows) ==
    [number |-> number, title |-> title, count |-> count,
     filtered |-> filtered, rows |-> rows]

summaryRows(summary) ==
    <<<<"Successfully Matched", summary.matchedCount,
        formatCurrencyForPdf(summary.matchedTotal)>>,
      <<"Outstanding Bank Items", summary.unmatchedBankCount,
        formatCurrencyForPdf(summary.unmatchedBankTotal)>>,
      <<"Outstanding Ledger Items", summary.unmatchedLedgerCount,
        formatCurrencyForPdf(summary.unmatchedLedgerTotal)>>>>

matchRow(p) ==
    <<p.bankTransaction.date, p.bankTransaction.description,
      p.ledgerTransaction.date, p.ledgerTransaction.description,
      formatCurrencyForPdf(p.bankTransaction.amount)>>

transactionRow(tx) ==
    <<tx.date, tx.description, formatCurrencyForPdf(tx.amount)>>

rowsOf(xs) == [i \in 1..Len(xs) |-> transactionRow(xs[i])]

\* 3. EXECUTIVE SUMMARY
summarySection(r, config) ==
    IF config.includeSummary
    THEN <<Section(1, "Executive Summary", None, FALSE,
                   summaryRows(r.summary))>>
    ELSE <<>>

\* 4. VERIFIED MATCHES
matchesSectionAlsoWhenEmpty(r, config) ==
    IF config.includeMatches
    THEN <<Section(2, "Verified Matches",
                   Some(Len(r.matchedTransactions)), FALSE,
                   [i \in 1..Len(r.matchedTransactions) |->
                        matchRow(r.matchedTransactions[i])])>>
    ELSE <<>>
matchesSection(r, config) ==
    IF config.includeMatches /\ Len(r.matchedTransactions) > 0
    THEN <<Section(2, "Verified Matches",
                   Some(Len(r.matchedTransactions)), FALSE,
                   [i \in 1..Len(r.matchedTransactions) |->
                        matchRow(r.matchedTransactions[i])])>>
    ELSE <<>>

\* 5. UNMATCHED BANK ITEMS and 6. UNMATCHED LEDGER ENTRIES
unmatchedSectionCountsAll(number, title, xs, include, config, selected) ==
    LET list == exportList(xs, config, selected)
    IN  IF include /\ Len(list) > 0
        THEN <<Section(number, title, Some(Len(xs)), FALSE, rowsOf(list))>>
        ELSE <<>>
unmatchedSection(number, title, xs, include, config, selected) ==
    LET list == exportList(xs, config, selected)
    IN  IF include /\ Len(list) > 0
        THEN <<Section(number, title, Some(Len(list)),
                       config.onlySelectedItems, rowsOf(list))>>
        ELSE <<>>

generatePdf(r, config, selectedBank, selectedLedger) ==
    summarySection(r, config)
        \o matchesSection(r, config)
        \o unmatchedSection(3, "Unmatched Bank Items",
                            r.unmatchedBankTransactions,
                            config.includeUnmatchedBank, config, selectedBank)
        \o unmatchedSection(4, "Unmatched Ledger Entries",
                            r.unmatchedLedgerEntries,
                            config.includeUnmatchedLedger, config,
                            selectedLedger)

---------------------------------------------------------------------------
(* App *)

\* useState<PdfExportConfig>({...})
DefaultExportConfig ==
    [includeSummary |-> TRUE, includeMatches |-> TRUE,
     includeUnmatchedBank |-> TRUE, includeUnmatchedLedger |-> TRUE,
     onlySelectedItems |-> FALSE]

InitOverlay ==
    /\ activeTab = "dashboard"
    /\ searchTerm = <<>>
    /\ statusFilter = "all"
    /\ selectedBankIndices = {}
    /\ selectedLedgerIndices = {}
    /\ bankStatuses = EmptyObj
    /\ ledgerStatuses = EmptyObj
    /\ showConfirmDialog = FALSE
    /\ showExportModal = FALSE
    /\ exportConfig = DefaultExportConfig

OverlayCarriedOver ==
    /\ showConfirmDialog' = FALSE
    /\ UNCHANGED <<activeTab, searchTerm, statusFilter, selectedBankIndices,
                   selectedLedgerIndices, bankStatuses, ledgerStatuses,
                   showExportModal, exportConfig>>

\* ReconciliationResults is not mounted, or has just been mounted
FreshOverlay ==
    /\ activeTab' = "dashboard"
    /\ searchTerm' = <<>>
    /\ statusFilter' = "all"
    /\ selectedBankIndices' = {}
    /\ selectedLedgerIndices' = {}
    /\ bankStatuses' = EmptyObj
    /\ ledgerStatuses' = EmptyObj
    /\ showConfirmDialog' = FALSE
    /\ showExportModal' = FALSE
    /\ exportConfig' = DefaultExportConfig

InitApp ==
    /\ bankStatement = FALSE
    /\ ledger = FALSE
    /\ result = None
    /\ isLoading = FALSE
    /\ error = None
    /\ pc = "idle"

InitHist ==
    /\ lastOp = NoOp
    /\ trip = None

Init ==
    /\ rawResult = EmptyObj
    /\ outcome = NotRun
    /\ InitApp
    /\ InitOverlay
    /\ pdf = None
    /\ csv = None
    /\ InitHist

FormShownWhileLoading == result = None
\* renderContent: the upload form is what is shown
FormShown == ~isLoading /\ result = None

\* renderContent: ReconciliationResults is what is shown
Mounted == ~isLoading /\ result # None

\* ... and the confirm dialog, which covers the whole page (fixed inset-0)
\* while it is shown, is not in the way
Reachable == Mounted /\ ~showConfirmDialog /\ ~showExportModal

\* onFileSelect={setBankStatement}
SelectBankStatement ==
    /\ FormShown
    /\ \E f \in BOOLEAN : bankStatement' = f
    /\ Did("setBankStatement")
    /\ UNCHANGED <<sanVars, exportVars, ledger, result, isLoading, error, pc,
                   overlayVars, trip>>

\* onFileSelect={setLedger}
SelectLedger ==
    /\ FormShown
    /\ \E f \in BOOLEAN : ledger' = f
    /\ Did("setLedger")
    /\ UNCHANGED <<sanVars, exportVars,
                   bankStatement, result, isLoading, error, pc,
                   overlayVars, trip>>

handleLoadSampleData ==
    /\ FormShown
    /\ bankStatement' = TRUE
    /\ ledger' = TRUE
    /\ error' = None
    /\ Did("handleLoadSampleData")
    /\ UNCHANGED <<sanVars, exportVars,
                   result, isLoading, pc, overlayVars, trip>>

\* handleReconcile up to its first await; the button is disabled unless
\* both files are chosen and nothing is loading
handleReconcile ==
    /\ FormShown
    /\ bankStatement /\ ledger
    /\ isLoading' = TRUE
    /\ error' = None
    /\ result' = None
    /\ pc' = "reading"
    /\ Did("handleReconcile")
    /\ UNCHANGED <<sanVars, exportVars,
                   bankStatement, ledger, overlayVars, trip>>

\* the catch block of handleReconcile
catchErrorKeepsLoading(message) ==
    /\ error' = Some(message)
    /\ pc' = "idle"
    /\ UNCHANGED <<sanVars, exportVars, bankStatement, ledger, result,
                   isLoading, overlayVars, trip>>
catchError(message) ==
    /\ error' = Some(message)
    /\ isLoading' = FALSE
    /\ pc' = "idle"
    /\ UNCHANGED <<sanVars, exportVars,
                   bankStatement, ledger, result, overlayVars, trip>>

\* Promise.all of the two fileToGenerativePart calls resolves
FilesRead ==
    /\ pc = "reading"
    /\ pc' = "calling"
    /\ Did("filesRead")
    /\ UNCHANGED <<sanVars, exportVars,
                   bankStatement, ledger, result, isLoading, error,
                   overlayVars, trip>>

\* ... or rejects
FilesRejected ==
    /\ pc = "reading"
    /\ catchError(<<FileCause>>)
    /\ Did("filesRejected")

\* ai.models.generateContent rejects
CallRejected ==
    /\ pc = "calling"
    /\ catchError(failedMessage(NetworkCause))
    /\ Did("callRejected")

\* JSON.parse throws on the text of the response
ResponseUnparseable ==
    /\ pc = "calling"
    /\ catchError(failedMessage(SyntaxCause))
    /\ Did("responseUnparseable")

\* the response parses, but sanitizing it throws
SanitizeThrew ==
    /\ pc = "calling"
    /\ \E raw \in ParsedResponses :
        /\ sanitize(raw).status = "threw"
        /\ catchError(sanitize(raw).message)
    /\ Did("sanitizeThrew")

\* reconcileFiles returns: setProgress(100); setResult(...); setIsLoading(false)
ResultReturned ==
    /\ pc = "calling"
    /\ \E raw \in ParsedResponses :
        /\ sanitize(raw).status = "returned"
        /\ result' = Some(rendered(sanitize(raw).value[1], "dashboard"))
    /\ isLoading' = FALSE
    /\ pc' = "idle"
    /\ FreshOverlay
    /\ Did("resultReturned")
    /\ UNCHANGED <<sanVars, pdf, csv, bankStatement, ledger, error, trip>>

---------------------------------------------------------------------------
(* ReconciliationResults and DetailedReport *)

SearchTerms == {<<>>, <<"f", "e", "e">>}
StatusFilters == {"all", "default", "investigating", "cleared", "reviewed"}

\* DetailedReport is rendered
Details == Reachable /\ activeTab = "details"

\* the bulk bar is rendered
hasSelection == selectedBankIndices # {} \/ selectedLedgerIndices # {}

\* DetailedReport is unmounted on the dashboard tab: its statusFilter state
\* starts again at 'all'
setActiveTab ==
    /\ Reachable
    /\ \E tab \in {"dashboard", "details"} :
        /\ activeTab' = tab
        /\ statusFilter' = IF tab = "dashboard" THEN "all" ELSE statusFilter
        /\ result' = Some(rendered(theResult, tab))
    /\ Did("setActiveTab")
    /\ UNCHANGED <<sanVars, exportVars,
                   bankStatement, ledger, isLoading, error, pc,
                   searchTerm, selectedBankIndices,
                   selectedLedgerIndices, bankStatuses, ledgerStatuses,
                   showConfirmDialog>>
    /\ KeepTrip

setSearchTerm ==
    /\ Details
    /\ \E term \in SearchTerms : searchTerm' = term
    /\ Did("setSearchTerm")
    /\ UNCHANGED <<sanVars, exportVars, appVars, activeTab, statusFilter,
                   selectedBankIndices, selectedLedgerIndices, bankStatuses,
                   ledgerStatuses, showConfirmDialog>>
    /\ KeepTrip

setStatusFilter ==
    /\ Details
    /\ \E f \in StatusFilters : statusFilter' = f
    /\ Did("setStatusFilter")
    /\ UNCHANGED <<sanVars, exportVars, appVars, activeTab, searchTerm,
                   selectedBankIndices, selectedLedgerIndices, bankStatuses,
                   ledgerStatuses, showConfirmDialog>>
    /\ KeepTrip

\* a click on a row (or its checkbox) of the unmatched bank table
toggleBankSelection ==
    /\ Details
    /\ \E idx \in filteredUnmatchedBank :
        /\ selectedBankIndices' = toggleSelection(selectedBankIndices, idx)
        /\ lastOp' = Op("toggleSelection", "bank", "-", idx, 0)
    /\ UNCHANGED <<sanVars, exportVars,
                   appVars, activeTab, searchTerm, statusFilter,
                   selectedLedgerIndices, bankStatuses, ledgerStatuses,
                   showConfirmDialog>>
    /\ KeepTrip

toggleLedgerSelection ==
    /\ Details
    /\ \E idx \in filteredUnmatchedLedger :
        /\ selectedLedgerIndices' = toggleSelection(selectedLedgerIndices, idx)
        /\ lastOp' = Op("toggleSelection", "ledger", "-", idx, 0)
    /\ UNCHANGED <<sanVars, exportVars,
                   appVars, activeTab, searchTerm, statusFilter,
                   selectedBankIndices, bankStatuses, ledgerStatuses,
                   showConfirmDialog>>
    /\ KeepTrip

\* the checkbox in the head of the unmatched bank table
selectAllUnmatchedBank ==
    /\ Details
    /\ selectedBankIndices' = selectAll(selectedBankIndices,
                                        filteredUnmatchedBank)
    /\ lastOp' = Op("selectAll", "bank", "-", -1,
                    selectAllStreak("bank", selectedBankIndices))
    /\ UNCHANGED <<sanVars, exportVars,
                   appVars, activeTab, searchTerm, statusFilter,
                   selectedLedgerIndices, bankStatuses, ledgerStatuses,
                   showConfirmDialog>>
    /\ KeepTrip

selectAllUnmatchedLedger ==
    /\ Details
    /\ selectedLedgerIndices' = selectAll(selectedLedgerIndices,
                                          filteredUnmatchedLedger)
    /\ lastOp' = Op("selectAll", "ledger", "-", -1,
                    selectAllStreak("ledger", selectedLedgerIndices))
    /\ UNCHANGED <<sanVars, exportVars,
                   appVars, activeTab, searchTerm, statusFilter,
                   selectedBankIndices, bankStatuses, ledgerStatuses,
                   showConfirmDialog>>
    /\ KeepTrip

\* the x of a status badge: the badge is there when the row is shown and
\* has a status
clearSingleBankStatus ==
    /\ Details
    /\ \E idx \in filteredUnmatchedBank \cap DOMAIN bankStatuses :
        /\ bankStatuses' = clearSingleStatus(bankStatuses, idx)
        /\ lastOp' = Op("clearSingleStatus", "bank", "-", idx, 0)
    /\ EndTrip("bank")
    /\ UNCHANGED <<sanVars, exportVars,
                   appVars, activeTab, searchTerm, statusFilter,
                   selectedBankIndices, selectedLedgerIndices, ledgerStatuses,
                   showConfirmDialog>>

clearSingleLedgerStatus ==
    /\ Details
    /\ \E idx \in filteredUnmatchedLedger \cap DOMAIN ledgerStatuses :
        /\ ledgerStatuses' = clearSingleStatus(ledgerStatuses, idx)
        /\ lastOp' = Op("clearSingleStatus", "ledger", "-", idx, 0)
    /\ EndTrip("ledger")
    /\ UNCHANGED <<sanVars, exportVars,
                   appVars, activeTab, searchTerm, statusFilter,
                   selectedBankIndices, selectedLedgerIndices, bankStatuses,
                   showConfirmDialog>>

\* applyBulkStatus('bank', status): the buttons Investigate and Mark Cleared
applyBulkStatusBank ==
    /\ Details
    /\ selectedBankIndices # {}
    /\ \E status \in {"investigating", "cleared"} :
        /\ bankStatuses' = bulkStatuses(bankStatuses, selectedBankIndices,
                                        status)
        /\ lastOp' = Op("applyBulkStatus", "bank", status, -1, 0)
    /\ selectedBankIndices' = {}
    /\ trip' = OpenTrip("bank", bankStatuses, selectedBankIndices)
    /\ UNCHANGED <<sanVars, exportVars,
                   appVars, activeTab, searchTerm, statusFilter,
                   selectedLedgerIndices, ledgerStatuses, showConfirmDialog>>

\* applyBulkStatus('ledger', 'reviewed'): the button Mark Reviewed
applyBulkStatusLedger ==
    /\ Details
    /\ selectedLedgerIndices # {}
    /\ ledgerStatuses' = bulkStatuses(ledgerStatuses, selectedLedgerIndices,
                                      "reviewed")
    /\ lastOp' = Op("applyBulkStatus", "ledger", "reviewed", -1, 0)
    /\ selectedLedgerIndices' = {}
    /\ trip' = OpenTrip("ledger", ledgerStatuses, selectedLedgerIndices)
    /\ UNCHANGED <<sanVars, exportVars,
                   appVars, activeTab, searchTerm, statusFilter,
                   selectedBankIndices, bankStatuses, showConfirmDialog>>

\* the button Reset: applyBulkStatus(type, 'default') for each collection
\* with a selection, both in one handler
resetSelectedStatuses ==
    /\ Details
    /\ hasSelection
    /\ IF selectedBankIndices # {}
       THEN /\ bankStatuses' = bulkStatuses(bankStatuses, selectedBankIndices,
                                            "default")
            /\ selectedBankIndices' = {}
       ELSE UNCHANGED <<bankStatuses, selectedBankIndices>>
    /\ IF selectedLedgerIndices # {}
       THEN /\ ledgerStatuses' = bulkStatuses(ledgerStatuses,
                                              selectedLedgerIndices, "default")
            /\ selectedLedgerIndices' = {}
       ELSE UNCHANGED <<ledgerStatuses, selectedLedgerIndices>>
    /\ lastOp' = Op("applyBulkStatus",
                    IF selectedBankIndices = {} THEN "ledger"
                    ELSE IF selectedLedgerIndices = {} THEN "bank"
                    ELSE "both",
                    "default", -1, 0)
    /\ trip' = TripAfterReset(selectedBankIndices, selectedLedgerIndices)
    /\ UNCHANGED <<sanVars, exportVars,
                   appVars, activeTab, searchTerm, statusFilter,
                   showConfirmDialog>>

\* the x of the bulk bar: both selections are emptied
clearSelection ==
    /\ Details
    /\ hasSelection
    /\ selectedBankIndices' = {}
    /\ selectedLedgerIndices' = {}
    /\ Did("clearSelection")
    /\ UNCHANGED <<sanVars, exportVars,
                   appVars, activeTab, searchTerm, statusFilter,
                   bankStatuses, ledgerStatuses, showConfirmDialog>>
    /\ KeepTrip

handleResetClick ==
    /\ Reachable
    /\ showConfirmDialog' = TRUE
    /\ result' = Some(rendered(theResult, activeTab))
    /\ Did("handleResetClick")
    /\ UNCHANGED <<sanVars, exportVars,
                   bankStatement, ledger, isLoading, error, pc,
                   activeTab, searchTerm, statusFilter,
                   selectedBankIndices, selectedLedgerIndices, bankStatuses,
                   ledgerStatuses>>
    /\ KeepTrip

cancelReset ==
    /\ Mounted
    /\ showConfirmDialog
    /\ showConfirmDialog' = FALSE
    /\ result' = Some(rendered(theResult, activeTab))
    /\ Did("cancelReset")
    /\ UNCHANGED <<sanVars, exportVars,
                   bankStatement, ledger, isLoading, error, pc,
                   activeTab, searchTerm, statusFilter,
                   selectedBankIndices, selectedLedgerIndices, bankStatuses,
                   ledgerStatuses>>
    /\ KeepTrip

\* confirmReset calls onReset, which is handleReset of App: with result
\* null ReconciliationResults is unmounted and its state is gone
handleReset ==
    /\ Mounted
    /\ showConfirmDialog
    /\ bankStatement' = FALSE
    /\ ledger' = FALSE
    /\ result' = None
    /\ error' = None
    /\ isLoading' = FALSE
    /\ FreshOverlay
    /\ Did("handleReset")
    /\ trip' = None
    /\ UNCHANGED <<sanVars, pdf, csv, pc>>

---------------------------------------------------------------------------
(* The exports: a result is shown on the details tab with some selection *)

\* a well-formed response without a matched pair
NoMatchesRaw == [SampleRaw(MaxBank) EXCEPT !.matchedTransactions = <<>>]

ExportResponses == {SampleRaw(n) : n \in 0..MaxBank} \cup {NoMatchesRaw}

IncludeKeys ==
    {"includeSummary", "includeMatches", "includeUnmatchedBank",
     "includeUnmatchedLedger"}

InitExport ==
    /\ rawResult = EmptyObj
    /\ outcome = NotRun
    /\ bankStatement = TRUE
    /\ ledger = TRUE
    /\ \E raw \in ExportResponses :
        /\ result = Some(sanitize(raw).value[1])
        /\ selectedBankIndices \in
                SUBSET (0..(Len(raw.unmatchedBankTransactions) - 1))
        /\ selectedLedgerIndices \in
                SUBSET (0..(Len(raw.unmatchedLedgerEntries) - 1))
    /\ isLoading = FALSE
    /\ error = None
    /\ pc = "idle"
    /\ activeTab = "details"
    /\ searchTerm \in SearchTerms
    /\ statusFilter = "all"
    /\ bankStatuses = EmptyObj
    /\ ledgerStatuses = EmptyObj
    /\ showConfirmDialog = FALSE
    /\ showExportModal = FALSE
    /\ exportConfig = DefaultExportConfig
    /\ pdf = None
    /\ csv = None
    /\ InitHist

\* what the handlers of the export modal leave alone
exportFrame ==
    /\ result' = Some(rendered(theResult, activeTab))
    /\ UNCHANGED <<sanVars, bankStatement, ledger, isLoading, error, pc,
                   overlayVars>>
    /\ KeepTrip

\* the button Export PDF
openExportModal ==
    /\ Reachable
    /\ showExportModal' = TRUE
    /\ Did("openExportModal")
    /\ UNCHANGED <<exportConfig, pdf, csv>>
    /\ exportFrame

\* a checkbox of the modal; the one for onlySelectedItems is rendered
\* only while something is selected
setExportConfig ==
    /\ Mounted
    /\ showExportModal
    /\ \E key \in IncludeKeys \cup
                (IF hasSelection THEN {"onlySelectedItems"} ELSE {}) :
        exportConfig' = [exportConfig EXCEPT ![key] = ~@]
    /\ Did("setExportConfig")
    /\ UNCHANGED <<showExportModal, pdf, csv>>
    /\ exportFrame

\* Cancel, or the x of the modal
closeExportModal ==
    /\ Mounted
    /\ showExportModal
    /\ showExportModal' = FALSE
    /\ Did("closeExportModal")
    /\ UNCHANGED <<exportConfig, pdf, csv>>
    /\ exportFrame

\* Generate PDF
handlePdfExport ==
    /\ Mounted
    /\ showExportModal
    /\ pdf' = Some(generatePdf(theResult, exportConfig, selectedBankIndices,
                               selectedLedgerIndices))
    /\ showExportModal' = FALSE
    /\ Did("handlePdfExport")
    /\ UNCHANGED <<exportConfig, csv>>
    /\ exportFrame

NextExport ==
    \/ openExportModal
    \/ setExportConfig
    \/ closeExportModal
    \/ handlePdfExport
    \/ clearSelection

SpecExport == InitExport /\ [][NextExport]_vars

---------------------------------------------------------------------------
(* The filter of DetailedReport on its own: a result is shown on the     *)
(* details tab, with any status maps the bulk buttons can produce         *)

FilterTerms ==
    {<<>>, <<"f", "e", "e">>, <<"F", "E", "E">>, <<"2", "5">>,
     <<"0", "3", "-", "1">>, <<"r", "e">>, <<"x">>}

StatusMaps(n, values) ==
    UNION {[keys -> values] : keys \in SUBSET (0..(n - 1))}

InitFilter ==
    /\ rawResult = EmptyObj
    /\ outcome = NotRun
    /\ bankStatement = TRUE
    /\ ledger = TRUE
    /\ result = Some(sanitize(SampleRaw(MaxBank)).value[1])
    /\ isLoading = FALSE
    /\ error = None
    /\ pc = "idle"
    /\ activeTab = "details"
    /\ searchTerm \in FilterTerms
    /\ statusFilter \in StatusFilters
    /\ selectedBankIndices = {}
    /\ selectedLedgerIndices = {}
    /\ bankStatuses \in StatusMaps(MaxBank, {"investigating", "cleared"})
    /\ ledgerStatuses \in StatusMaps(1, {"reviewed"})
    /\ showConfirmDialog = FALSE
    /\ showExportModal = FALSE
    /\ exportConfig = DefaultExportConfig
    /\ pdf = None
    /\ csv = None
    /\ InitHist

\* the search input, with more to type
typeSearchTerm ==
    /\ Details
    /\ \E term \in FilterTerms : searchTerm' = term
    /\ Did("setSearchTerm")
    /\ UNCHANGED <<sanVars, exportVars, appVars, activeTab, statusFilter,
                   selectedBankIndices, selectedLedgerIndices, bankStatuses,
                   ledgerStatuses, showConfirmDialog>>
    /\ KeepTrip

NextFilter == typeSearchTerm \/ setStatusFilter

SpecFilter == InitFilter /\ [][NextFilter]_vars

---------------------------------------------------------------------------
\* generateCsv (utils/downloadUtils.ts) and the button Export CSV.  The
\* text is kept as a sequence of lines, a line as the sequence of its
\* comma-separated cells, a cell as a string; a fixed text is kept whole
\* as one element.  An empty line is the empty sequence.

\* val.replace(/"/g, '""')
RECURSIVE escapeQuotes(_)
escapeQuotes(s) ==
    IF s = <<>> THEN <<>>
    ELSE (IF Head(s) = "\"" THEN <<"\"", "\"">> ELSE <<Head(s)>>)
            \o escapeQuotes(Tail(s))

\* `"${String(val).replace(...)}"` for a value already turned into a string
csvCell(s) == <<"\"">> \o escapeQuotes(s) \o <<"\"">>

\* toCsvRow(["label", count, total]): String(val) of the raw numbers
toCsvRow(label, count, total) ==
    <<csvCell(<<label>>), csvCell(IntToString(count)),
      csvCell(NumberToString(total))>>

generateCsvCountsSelection(r, companyName, now) ==
    (IF companyName # <<>> THEN <<<<<<"Company Name">>, companyName>>>>
     ELSE <<>>)
    \o <<<<<<"Reconciliation Report">>>>,
         <<<<"Generated on">>, now>>,
         <<>>,
         <<<<"Summary">>>>,
         <<csvCell(<<"Metric">>), csvCell(<<"Transaction Count">>),
           csvCell(<<"Net Value (GHS)">>)>>,
         toCsvRow("Successfully Matched", r.summary.matchedCount,
                  r.summary.matchedTotal),
         toCsvRow("Outstanding Bank Items",
                  IF selectedBankIndices # {}
                  THEN Cardinality(selectedBankIndices)
                  ELSE r.summary.unmatchedBankCount,
                  r.summary.unmatchedBankTotal),
         toCsvRow("Outstanding Ledger Items", r.summary.unmatchedLedgerCount,
                  r.summary.unmatchedLedgerTotal),
         <<>>>>
generateCsv(r, companyName, now) ==
    (IF companyName # <<>> THEN <<<<<<"Company Name">>, companyName>>>>
     ELSE <<>>)
    \o <<<<<<"Reconciliation Report">>>>,
         <<<<"Generated on">>, now>>,
         <<>>,
         <<<<"Summary">>>>,
         <<csvCell(<<"Metric">>), csvCell(<<"Transaction Count">>),
           csvCell(<<"Net Value (GHS)">>)>>,
         toCsvRow("Successfully Matched", r.summary.matchedCount,
                  r.summary.matchedTotal),
         toCsvRow("Outstanding Bank Items", r.summary.unmatchedBankCount,
                  r.summary.unmatchedBankTotal),
         toCsvRow("Outstanding Ledger Items", r.summary.unmatchedLedgerCount,
                  r.summary.unmatchedLedgerTotal),
         <<>>>>

\* the companyName prop: empty, or a name typed on the form
CompanyNames == {<<>>, <<"A", "c", "m", "e">>}

\* new Date().toLocaleString(): whatever the clock says at the click
Clock == {<<"t1">>, <<"t2">>}

\* the button Export CSV, shown under both tabs
handleDownloadCsv ==
    /\ Reachable
    /\ \E companyName \in CompanyNames, now \in Clock :
        csv' = Some(generateCsv(theResult, companyName, now))
    /\ Did("handleDownloadCsv")
    /\ result' = Some(rendered(theResult, activeTab))
    /\ UNCHANGED <<sanVars, bankStatement, ledger, isLoading, error, pc,
                   overlayVars, showExportModal, exportConfig, pdf>>
    /\ KeepTrip

\* an export option left from an earlier visit of the modal
StaleExportConfig ==
    [DefaultExportConfig EXCEPT !.onlySelectedItems = TRUE,
                                !.includeMatches = FALSE]

\* results on screen in any review state
InitCsv ==
    /\ rawResult = EmptyObj
    /\ outcome = NotRun
    /\ bankStatement = TRUE
    /\ ledger = TRUE
    /\ \E raw \in ExportResponses :
        /\ result = Some(sanitize(raw).value[1])
        /\ selectedBankIndices \in
                SUBSET (0..(Len(raw.unmatchedBankTransactions) - 1))
        /\ selectedLedgerIndices \in
                SUBSET (0..(Len(raw.unmatchedLedgerEntries) - 1))
        /\ bankStatuses \in StatusMaps(Len(raw.unmatchedBankTransactions),
                                       {"investigating", "cleared"})
        /\ ledgerStatuses \in StatusMaps(Len(raw.unmatchedLedgerEntries),
                                         {"reviewed"})
    /\ isLoading = FALSE
    /\ error = None
    /\ pc = "idle"
    /\ activeTab = "details"
    /\ searchTerm \in SearchTerms
    /\ statusFilter \in {"all", "cleared"}
    /\ showConfirmDialog = FALSE
    /\ showExportModal = FALSE
    /\ exportConfig \in {DefaultExportConfig, StaleExportConfig}
    /\ pdf = None
    /\ csv = None
    /\ InitHist

NextCsv == handleDownloadCsv \/ toggleBankSelection \/ setStatusFilter

SpecCsv == InitCsv /\ [][NextCsv]_vars

---------------------------------------------------------------------------
\* The Dashboard over results with up to six unmatched items, several of
\* them of one amount

MaxTopBank == 4
MaxTopLedger == 2

\* Fee 25.00, Rent 12.00.50 as a string, Refund -25.00
TopBankPool == {BankPool[1], BankPool[2], BankPool[3]}

\* Cheque 40.00 and a fee of 25.00
TopLedgerPool ==
    {[date |-> DateB, description |-> DescCheque, amount |-> JNum(4000),
      type |-> "credit"],
     [date |-> DateA, description |-> DescFee, amount |-> JNum(2500),
      type |-> "debit"]}

SeqsUpTo(S, n) == UNION {[1..k -> S] : k \in 0..n}

TopResponses ==
    {[SampleRaw(0) EXCEPT !.unmatchedBankTransactions = bank,
                          !.unmatchedLedgerEntries = ledgerEntries] :
        bank \in SeqsUpTo(TopBankPool, MaxTopBank),
        ledgerEntries \in SeqsUpTo(TopLedgerPool, MaxTopLedger)}

InitTop ==
    /\ rawResult = EmptyObj
    /\ outcome = NotRun
    /\ bankStatement = TRUE
    /\ ledger = TRUE
    /\ \E raw \in TopResponses : result = Some(sanitize(raw).value[1])
    /\ isLoading = FALSE
    /\ error = None
    /\ pc = "idle"
    /\ InitOverlay
    /\ pdf = None
    /\ csv = None
    /\ InitHist

NextTop == setActiveTab

SpecTop == InitTop /\ [][NextTop]_vars

---------------------------------------------------------------------------
\* Closing Balances of the Dashboard (Dashboard.tsx:170-182)

\* closing balances around 1000.00 and around 5000.00, a pesewa or two
\* apart
Balances == {99999, 100000, 100001, 499998, 499999, 500000, 500001}

\* a - b < 0.01 in binary64 for two of the Balances one pesewa apart:
\* 1000 - 999.99 and 1000.01 - 1000 come out as 0.009999999999990905,
\* 5000 - 4999.99 and 5000.01 - 5000 as 0.010000000000218279
onePesewaRoundsBelow(a, b) == {a, b} \subseteq {99999, 100000, 100001}

\* summary.bankBalance - summary.ledgerBalance, as formatCurrency shows it
variance(summary) == summary.bankBalance - summary.ledgerBalance

\* Math.abs(summary.bankBalance - summary.ledgerBalance) < 0.01: the green
\* box when true, the red one when false
varianceClass(summary) ==
    LET d == summary.bankBalance - summary.ledgerBalance
        abs == IF d < 0 THEN -d ELSE d
    IN  IF (IF abs = 1
            THEN onePesewaRoundsBelow(summary.bankBalance,
                                      summary.ledgerBalance)
            ELSE abs < 1)
        THEN "balanced" ELSE "out of balance"

VarianceResponses ==
    {[SampleRaw(n) EXCEPT !.summary.bankBalance = b,
                          !.summary.ledgerBalance = l] :
        n \in 0..MaxBank, b \in Balances, l \in Balances}

InitVariance ==
    /\ rawResult = EmptyObj
    /\ outcome = NotRun
    /\ bankStatement = TRUE
    /\ ledger = TRUE
    /\ \E raw \in VarianceResponses : result = Some(sanitize(raw).value[1])
    /\ isLoading = FALSE
    /\ error = None
    /\ pc = "idle"
    /\ InitOverlay
    /\ pdf = None
    /\ csv = None
    /\ InitHist

NextVariance == setActiveTab

SpecVariance == InitVariance /\ [][NextVariance]_vars

Next ==
    \/ SelectBankStatement
    \/ SelectLedger
    \/ handleLoadSampleData
    \/ handleReconcile
    \/ FilesRead
    \/ FilesRejected
    \/ CallRejected
    \/ ResponseUnparseable
    \/ SanitizeThrew
    \/ ResultReturned
    \/ setActiveTab
    \/ setSearchTerm
    \/ setStatusFilter
    \/ toggleBankSelection
    \/ toggleLedgerSelection
    \/ selectAllUnmatchedBank
    \/ selectAllUnmatchedLedger
    \/ clearSingleBankStatus
    \/ clearSingleLedgerStatus
    \/ applyBulkStatusBank
    \/ applyBulkStatusLedger
    \/ resetSelectedStatuses
    \/ clearSelection
    \/ handleResetClick
    \/ cancelReset
    \/ handleReset

Spec == Init /\ [][Next]_vars

NextSanitize == Sanitize

\* a parsed response in hand, everything else as constructed
InitParsed ==
    InitSanitize /\ InitApp /\ InitOverlay /\ pdf = None /\ csv = None
        /\ InitHist

SpecSanitize == InitParsed /\ [][NextSanitize]_vars

---------------------------------------------------------------------------
(* Claims about the sanitizer, under SpecSanitize *)

returned == outcome.status = "returned"
sanitized == outcome.value[1]

\* the sum of the first n numbers of a sequence
RECURSIVE SumTo(_, _)
SumTo(f, n) == IF n = 0 THEN 0 ELSE SumTo(f, n - 1) + f[n]

\* C1: in every result the sanitizer returns, the three counts of summary
\* are the lengths of the three collections of that result, whatever the
\* raw summary held.
C1_CountsAreLengths ==
    returned =>
        /\ sanitized.summary.matchedCount = Len(sanitized.matchedTransactions)
        /\ sanitized.summary.unmatchedBankCount =
                Len(sanitized.unmatchedBankTransactions)
        /\ sanitized.summary.unmatchedLedgerCount =
                Len(sanitized.unmatchedLedgerEntries)

\* a result was returned for a raw summary that had its own, wrong counts
C1_Witness ==
    /\ returned
    /\ "summary" \in DOMAIN rawResult
    /\ "matchedCount" \in DOMAIN rawResult.summary
    /\ rawResult.summary.matchedCount # Len(sanitized.matchedTransactions)
    /\ Len(sanitized.unmatchedBankTransactions) = 2

\* C2: in every result the sanitizer returns, matchedTotal is the sum of the
\* bank-leg amounts of the pairs, and the two unmatched totals are the sums
\* of the amounts of their collections (0 for an empty collection).
C2_TotalsAreSums ==
    returned =>
        LET m == sanitized.matchedTransactions
            b == sanitized.unmatchedBankTransactions
            l == sanitized.unmatchedLedgerEntries
        IN  /\ sanitized.summary.matchedTotal =
                    SumTo([i \in 1..Len(m) |-> m[i].bankTransaction.amount],
                          Len(m))
            /\ sanitized.summary.unmatchedBankTotal =
                    SumTo([i \in 1..Len(b) |-> b[i].amount], Len(b))
            /\ sanitized.summary.unmatchedLedgerTotal =
                    SumTo([i \in 1..Len(l) |-> l[i].amount], Len(l))
            /\ m = <<>> => sanitized.summary.matchedTotal = 0
            /\ b = <<>> => sanitized.summary.unmatchedBankTotal = 0
            /\ l = <<>> => sanitized.summary.unmatchedLedgerTotal = 0

\* two pairs were sanitized, one with legs of different amounts, and the
\* ledger collection is empty
C2_Witness ==
    /\ returned
    /\ Len(sanitized.matchedTransactions) = 2
    /\ \E i \in 1..2 :
         sanitized.matchedTransactions[i].bankTransaction.amount #
            sanitized.matchedTransactions[i].ledgerTransaction.amount
    /\ sanitized.summary.matchedTotal > 0
    /\ sanitized.unmatchedLedgerEntries = <<>>

\* the number each string of the model denotes, in hundredths, where it
\* starts with a numeral
DenotedBy(s) ==
    CASE s = Str3500 -> 350000
      [] s = StrNeg12 -> -1250
      [] s = StrBlank7 -> 700
      [] s = Str1200 -> 120050

\* abs(n) for the number n the raw amount coerces to, 0 when there is no
\* amount or it does not start with a numeral
ExpectedAmount(t) ==
    IF "amount" \notin DOMAIN t THEN 0
    ELSE CASE t.amount.t = "num" -> Abs(t.amount.n)
           [] t.amount.t = "str" /\ t.amount.s \in {<<>>, StrAbc} -> 0
           [] t.amount.t = "str" -> Abs(DenotedBy(t.amount.s))
           [] OTHER -> 0

\* C3: every transaction of a returned result (both legs of every pair,
\* every unmatched item) stores abs of the number its raw amount coerces
\* to, or 0 when the raw amount is missing or not numeric; so every stored
\* amount is >= 0.
C3_AmountsAreAbsolute ==
    returned =>
        LET rm == OrEmpty(rawResult, "matchedTransactions")
            rb == OrEmpty(rawResult, "unmatchedBankTransactions")
            rl == OrEmpty(rawResult, "unmatchedLedgerEntries")
            m == sanitized.matchedTransactions
            b == sanitized.unmatchedBankTransactions
            l == sanitized.unmatchedLedgerEntries
        IN  /\ Len(m) = Len(rm) /\ Len(b) = Len(rb) /\ Len(l) = Len(rl)
            /\ \A i \in 1..Len(m) :
                /\ m[i].bankTransaction.amount =
                        ExpectedAmount(rm[i].bankTransaction)
                /\ m[i].ledgerTransaction.amount =
                        ExpectedAmount(rm[i].ledgerTransaction)
                /\ m[i].bankTransaction.amount >= 0
                /\ m[i].ledgerTransaction.amount >= 0
            /\ \A i \in 1..Len(b) :
                b[i].amount = ExpectedAmount(rb[i]) /\ b[i].amount >= 0
            /\ \A i \in 1..Len(l) :
                l[i].amount = ExpectedAmount(rl[i]) /\ l[i].amount >= 0

\* a negative number, a string with a sign and trailing text, and a
\* transaction with no amount were all sanitized
C3_Witness ==
    /\ returned
    /\ \E i \in 1..Len(sanitized.matchedTransactions) :
        /\ Get(rawResult.matchedTransactions[i].ledgerTransaction, "amount")
                = JNum(-350000)
        /\ sanitized.matchedTransactions[i].ledgerTransaction.amount = 350000
    /\ \E i \in 1..Len(sanitized.unmatchedBankTransactions) :
        /\ Get(rawResult.unmatchedBankTransactions[i], "amount") = JStr(StrNeg12)
        /\ sanitized.unmatchedBankTransactions[i].amount = 1250

\* C4: for every parsed raw response, however malformed inside, the
\* sanitizer completes and returns a result.
C4_SanitizerNeverRaises ==
    outcome # NotRun => returned

\* C5: for every raw object in which one of the four top-level keys is
\* absent, the sanitizer does not raise and returns an empty sequence,
\* count 0 and total 0 for each absent collection.
C5_AbsentCollectionsAreEmpty ==
    (outcome # NotRun /\ DOMAIN rawResult # TopKeys) =>
        /\ returned
        /\ "matchedTransactions" \notin DOMAIN rawResult =>
            /\ sanitized.matchedTransactions = <<>>
            /\ sanitized.summary.matchedCount = 0
            /\ sanitized.summary.matchedTotal = 0
        /\ "unmatchedBankTransactions" \notin DOMAIN rawResult =>
            /\ sanitized.unmatchedBankTransactions = <<>>
            /\ sanitized.summary.unmatchedBankCount = 0
            /\ sanitized.summary.unmatchedBankTotal = 0
        /\ "unmatchedLedgerEntries" \notin DOMAIN rawResult =>
            /\ sanitized.unmatchedLedgerEntries = <<>>
            /\ sanitized.summary.unmatchedLedgerCount = 0
            /\ sanitized.summary.unmatchedLedgerTotal = 0

---------------------------------------------------------------------------
(* Claims about the session and the review overlay, under Spec *)

\* the error paragraph of the upload form is rendered
errorShown == FormShown /\ error # None

\* C6: when the external call fails or its response does not parse, the
\* attempt ends with no result (nothing of it is displayed), loading off,
\* and one error message 'Reconciliation failed: <cause>' shown.
C6_FailureEndsAttempt ==
    lastOp.op \in {"callRejected", "responseUnparseable"} =>
        /\ result = None
        /\ ~Mounted
        /\ ~isLoading
        /\ pc = "idle"
        /\ errorShown
        /\ Len(error[1]) = 2
        /\ error[1][1] = "Reconciliation failed: "
        /\ error[1][2] \in {NetworkCause, SyntaxCause}

\* the response of an attempt did not parse
C6_Witness ==
    /\ lastOp.op = "responseUnparseable"
    /\ error = Some(<<"Reconciliation failed: ", SyntaxCause>>)
    /\ result = None
    /\ ~isLoading

\* C7: select-all on a collection clears its selection exactly when the
\* selection is not empty and is the set of visible indices; in every other
\* case the selection becomes the set of visible indices.
C7_SelectAllComparesSets ==
    [][/\ (lastOp'.op = "selectAll" /\ lastOp'.type = "bank") =>
            selectedBankIndices' =
                IF selectedBankIndices # {}
                   /\ selectedBankIndices = filteredUnmatchedBank
                THEN {} ELSE filteredUnmatchedBank
       /\ (lastOp'.op = "selectAll" /\ lastOp'.type = "ledger") =>
            selectedLedgerIndices' =
                IF selectedLedgerIndices # {}
                   /\ selectedLedgerIndices = filteredUnmatchedLedger
                THEN {} ELSE filteredUnmatchedLedger]_vars

\* C8: from an empty selection, the first select-all selects exactly the
\* visible indices and the select-all right after it leaves the selection
\* empty again (with nothing visible both leave it empty).
C8_SelectAllTwiceFromEmpty ==
    lastOp.op = "selectAll" =>
        LET sel == IF lastOp.type = "bank" THEN selectedBankIndices
                   ELSE selectedLedgerIndices
            visible == IF lastOp.type = "bank" THEN filteredUnmatchedBank
                       ELSE filteredUnmatchedLedger
        IN  /\ lastOp.streak = 1 => sel = visible
            /\ lastOp.streak = 2 => sel = {}

\* two bank items are visible and the second select-all in a row has run
C8_Witness ==
    /\ lastOp.op = "selectAll"
    /\ lastOp.type = "bank"
    /\ lastOp.streak = 2
    /\ filteredUnmatchedBank = {0, 1}
    /\ selectedBankIndices = {}

\* what one applyBulkStatus call makes of a status map
bulkApplied(before, after, selected, status) ==
    /\ \A idx \in selected :
        IF status = "default" THEN idx \notin DOMAIN after
        ELSE idx \in DOMAIN after /\ after[idx] = status
    /\ \A idx \in ((DOMAIN before) \cup (DOMAIN after)) \ selected :
        /\ idx \in DOMAIN before
        /\ idx \in DOMAIN after
        /\ after[idx] = before[idx]

\* C9: applyBulkStatus(collection, status) removes (status 'default') or
\* sets the entry of exactly the selected indices of that collection and
\* empties its selection; the entries of the other indices and the other
\* collection's map and selection stay as they are.
C9_BulkStatusActsOnSelection ==
    [][lastOp'.op = "applyBulkStatus" =>
        /\ IF lastOp'.type \in {"bank", "both"}
           THEN /\ bulkApplied(bankStatuses, bankStatuses',
                               selectedBankIndices, lastOp'.status)
                /\ selectedBankIndices' = {}
           ELSE UNCHANGED <<bankStatuses, selectedBankIndices>>
        /\ IF lastOp'.type \in {"ledger", "both"}
           THEN /\ bulkApplied(ledgerStatuses, ledgerStatuses',
                               selectedLedgerIndices, lastOp'.status)
                /\ selectedLedgerIndices' = {}
           ELSE UNCHANGED <<ledgerStatuses, selectedLedgerIndices>>]_vars

\* 'cleared' was applied to one bank item while the other kept its
\* 'investigating' and the ledger kept its status and its selection
C9_Witness ==
    /\ lastOp.op = "applyBulkStatus"
    /\ lastOp.type = "bank"
    /\ lastOp.status = "cleared"
    /\ selectedBankIndices = {}
    /\ \E i, j \in DOMAIN bankStatuses :
        bankStatuses[i] = "cleared" /\ bankStatuses[j] = "investigating"
    /\ selectedLedgerIndices # {}
    /\ ledgerStatuses # EmptyObj

\* C10: a non-default bulk status on some indices followed by bulk status
\* 'default' on the same indices leaves a map with none of those indices
\* and with the entries of the other indices as before the two calls.
C10_RoundTripUntags ==
    (trip # None /\ trip[1].phase = "closed") =>
        LET statuses == IF trip[1].type = "bank" THEN bankStatuses
                        ELSE ledgerStatuses
        IN  /\ (DOMAIN statuses) \cap trip[1].indices = {}
            /\ statuses = trip[1].others

\* a round trip on one bank item was closed while the other item had a
\* status of its own
C10_Witness ==
    /\ trip # None
    /\ trip[1].phase = "closed"
    /\ trip[1].type = "bank"
    /\ trip[1].others # EmptyObj
    /\ bankStatuses = trip[1].others

\* the indices a bulk click acts on, by the collection(s) named in lastOp'
targetedBank ==
    IF lastOp'.type \in {"bank", "both"} THEN selectedBankIndices ELSE {}

targetedLedger ==
    IF lastOp'.type \in {"ledger", "both"} THEN selectedLedgerIndices ELSE {}

\* C11: a bulk status click is atomic for what is rendered, filtered and
\* exported next: in the state after it every targeted index carries the new
\* status (none is left behind) and no targeted collection has its map
\* updated with its selection still standing; the Reset click, which sets
\* 'default' on the bank and the ledger selection, leaves no selection.
C11_BulkStatusIsAtomic ==
    [][lastOp'.op = "applyBulkStatus" =>
        /\ \A idx \in targetedBank :
            currentStatus(bankStatuses', idx) = lastOp'.status
        /\ \A idx \in targetedLedger :
            currentStatus(ledgerStatuses', idx) = lastOp'.status
        /\ targetedBank # {} => selectedBankIndices' = {}
        /\ targetedLedger # {} => selectedLedgerIndices' = {}
        /\ lastOp'.status = "default" => ~hasSelection']_vars

\* the Reset click has just set 'default' on a bank and a ledger selection
\* at once, and an entry outside the selections is still there
C11_Witness ==
    /\ lastOp.op = "applyBulkStatus"
    /\ lastOp.type = "both"
    /\ lastOp.status = "default"
    /\ ~hasSelection
    /\ bankStatuses # EmptyObj
    /\ ledgerStatuses = EmptyObj

\* the status map of a collection before and after a step
statusesOf(type) == IF type = "bank" THEN bankStatuses ELSE ledgerStatuses

statusesAfter(type) == IF type = "bank" THEN bankStatuses' ELSE ledgerStatuses'

\* the positional indices of a collection of the result
indicesOf(type) ==
    IF type = "bank"
    THEN 0..(Len(theResult.unmatchedBankTransactions) - 1)
    ELSE 0..(Len(theResult.unmatchedLedgerEntries) - 1)

\* C12: clearing the status of one index removes that index's entry only;
\* the other entries, both selections and the other collection's map stay;
\* on an index without an entry the handler gives back the same map.
C12_ClearStatusRemovesOneEntry ==
    [][/\ lastOp'.op = "clearSingleStatus" =>
            /\ lastOp'.idx \notin DOMAIN statusesAfter(lastOp'.type)
            /\ DOMAIN statusesAfter(lastOp'.type) =
                    (DOMAIN statusesOf(lastOp'.type)) \ {lastOp'.idx}
            /\ \A idx \in DOMAIN statusesAfter(lastOp'.type) :
                    statusesAfter(lastOp'.type)[idx] =
                        statusesOf(lastOp'.type)[idx]
            /\ UNCHANGED <<selectedBankIndices, selectedLedgerIndices>>
            /\ lastOp'.type = "bank" => UNCHANGED ledgerStatuses
            /\ lastOp'.type = "ledger" => UNCHANGED bankStatuses
       /\ Mounted =>
            \A type \in {"bank", "ledger"} :
                \A idx \in indicesOf(type) \ DOMAIN statusesOf(type) :
                    clearSingleStatus(statusesOf(type), idx) = statusesOf(type)
      ]_vars

\* the status of a selected bank item was cleared while the other item
\* kept its status
C12_Witness ==
    /\ lastOp.op = "clearSingleStatus"
    /\ lastOp.type = "bank"
    /\ lastOp.idx \in selectedBankIndices
    /\ lastOp.idx \notin DOMAIN bankStatuses
    /\ bankStatuses # EmptyObj
    /\ ledgerStatuses # EmptyObj

\* the selection of a collection before and after a step
selectionOf(type) ==
    IF type = "bank" THEN selectedBankIndices ELSE selectedLedgerIndices

selectionAfter(type) ==
    IF type = "bank" THEN selectedBankIndices' ELSE selectedLedgerIndices'

\* C13: a toggle flips the membership of its index in its collection's
\* selection and of no other index; the other collection's selection and
\* both status maps stay; a second toggle of the same index restores the
\* selection.
C13_ToggleFlipsOneIndex ==
    [][lastOp'.op = "toggleSelection" =>
        /\ (lastOp'.idx \in selectionAfter(lastOp'.type))
                <=> (lastOp'.idx \notin selectionOf(lastOp'.type))
        /\ selectionAfter(lastOp'.type) \ {lastOp'.idx} =
                selectionOf(lastOp'.type) \ {lastOp'.idx}
        /\ lastOp'.type = "bank" => UNCHANGED selectedLedgerIndices
        /\ lastOp'.type = "ledger" => UNCHANGED selectedBankIndices
        /\ UNCHANGED <<bankStatuses, ledgerStatuses>>
        /\ toggleSelection(selectionAfter(lastOp'.type), lastOp'.idx) =
                selectionOf(lastOp'.type)]_vars

\* a bank item was toggled out of a selection that still holds the other
\* item, with a ledger selection and a bank status around
C13_Witness ==
    /\ lastOp.op = "toggleSelection"
    /\ lastOp.type = "bank"
    /\ lastOp.idx \notin selectedBankIndices
    /\ selectedBankIndices # {}
    /\ selectedLedgerIndices # {}
    /\ bankStatuses # EmptyObj

---------------------------------------------------------------------------
(* Claims about the filter, under SpecFilter *)

\* t occurs in s from position i + 1 on, letters compared by `same`
occursAt(t, s, i, foldCase) ==
    /\ i + Len(t) <= Len(s)
    /\ \A k \in 1..Len(t) :
        IF foldCase THEN lowerChar(s[i + k]) = lowerChar(t[k])
        ELSE s[i + k] = t[k]

isSubstring(t, s, foldCase) ==
    \E i \in 0..Len(s) : occursAt(t, s, i, foldCase)

\* the visibility rule of the claim for item idx of a collection
shouldBeVisible(items, statuses, idx) ==
    LET tx == items[idx + 1]
        effective == IF idx \in DOMAIN statuses THEN statuses[idx]
                     ELSE "default"
    IN  /\ \/ searchTerm = <<>>
           \/ isSubstring(searchTerm, tx.description, TRUE)
           \/ isSubstring(searchTerm, tx.date, FALSE)
           \/ isSubstring(searchTerm, NumberToString(tx.amount), FALSE)
        /\ (statusFilter = "all" \/ effective = statusFilter)

\* C14: an unmatched item is visible exactly when the search term is empty
\* or found in its description (case-insensitively), its date or its
\* amount's decimal string, and the status filter is 'all' or equals its
\* effective status; the visible items are named by their positions in the
\* whole collection.
C14_VisibleIffMatches ==
    Mounted =>
        /\ filteredUnmatchedBank \subseteq indicesOf("bank")
        /\ filteredUnmatchedLedger \subseteq indicesOf("ledger")
        /\ \A idx \in indicesOf("bank") :
            (idx \in filteredUnmatchedBank) <=>
                shouldBeVisible(theResult.unmatchedBankTransactions,
                                bankStatuses, idx)
        /\ \A idx \in indicesOf("ledger") :
            (idx \in filteredUnmatchedLedger) <=>
                shouldBeVisible(theResult.unmatchedLedgerEntries,
                                ledgerStatuses, idx)

\* 'FEE' finds the item 'Fee' by its description, and the status filter
\* lets it through by the status it has
C14_Witness ==
    /\ Mounted
    /\ lastOp.op = "setStatusFilter"
    /\ searchTerm = <<"F", "E", "E">>
    /\ statusFilter = "investigating"
    /\ 0 \in DOMAIN bankStatuses
    /\ bankStatuses[0] = "investigating"
    /\ filteredUnmatchedBank = {0}
    /\ filteredUnmatchedLedger = {}

---------------------------------------------------------------------------
(* Claims about the session, under Spec *)

\* what the sanitizer returns for the responses of the model
sanitizedResults ==
    {sanitize(raw).value[1] :
        raw \in {r \in ParsedResponses : sanitize(r).status = "returned"}}

\* C15: the result on display is the sanitizer's output as it arrived: no
\* review handler, filter, tab change, dashboard rendering (top unmatched
\* sorting) or export changes its collections or its summary, so an index
\* of the overlay names the same transaction throughout.
C15_ResultIsNeverChanged ==
    [][result' # None =>
        IF result # None
        THEN result' = result
        ELSE result'[1] \in sanitizedResults]_vars

\* statuses were set, and the dashboard has sorted the unmatched items for
\* its top list in another order than the result holds them
C15_Witness ==
    /\ Mounted
    /\ lastOp.op = "setActiveTab"
    /\ activeTab = "dashboard"
    /\ bankStatuses # EmptyObj
    /\ theResult \in sanitizedResults
    /\ Len(theResult.unmatchedBankTransactions) = 2
    /\ theResult.unmatchedBankTransactions[1].amount <
            theResult.unmatchedBankTransactions[2].amount
    /\ topUnmatched(theResult)[1] = theResult.unmatchedBankTransactions[2]

\* no index is selected and no index has a status
overlayEmpty ==
    /\ selectedBankIndices = {}
    /\ selectedLedgerIndices = {}
    /\ bankStatuses = EmptyObj
    /\ ledgerStatuses = EmptyObj

\* C16: when a new result has just become available both status maps and
\* both selections are empty; once the user has confirmed a new session
\* (and as long as no result is there) nothing of the statuses and
\* selections is kept, so none of it can reach a later result.
C16_OverlayIsResultScoped ==
    (result = None \/ lastOp.op \in {"resultReturned", "handleReset"})
        => overlayEmpty

\* a result with two unmatched bank items has just arrived
C16_Witness ==
    /\ lastOp.op = "resultReturned"
    /\ Mounted
    /\ Len(theResult.unmatchedBankTransactions) = 2
    /\ overlayEmpty
    /\ activeTab = "dashboard"

\* C17: from the click on Reconcile until the external call resolves there
\* is no result and neither the form nor the results view (with its review
\* handlers and exports) is rendered; the call of an attempt is made once:
\* an attempt starts only with a click while none is pending, its call
\* starts only after its files are read, and a pending call only ends.
C17_OneCallPerAttempt ==
    [][/\ pc # "idle" =>
            /\ result = None
            /\ isLoading
            /\ ~Mounted
            /\ ~FormShown
       /\ pc' = "reading" => (pc = "idle" /\ lastOp'.op = "handleReconcile")
       /\ pc' = "calling" => (pc = "reading" /\ lastOp'.op = "filesRead")
       /\ pc = "calling" => pc' = "idle"
       /\ lastOp.op \in {"callRejected", "responseUnparseable",
                         "sanitizeThrew", "filesRejected"} =>
            (pc = "idle" /\ (pc' # "idle" => lastOp'.op = "handleReconcile"))
      ]_vars

\* the external call of an attempt is pending
C17_Witness ==
    /\ pc = "calling"
    /\ lastOp.op = "filesRead"
    /\ result = None
    /\ isLoading
    /\ bankStatement /\ ledger

---------------------------------------------------------------------------
(* Claims about the document export, under SpecExport *)

\* the document that handlePdfExport has just saved
exported == lastOp.op = "handlePdfExport" /\ pdf # None

present(number) == \E i \in 1..Len(pdf[1]) : pdf[1][i].number = number

\* the positional indices whose items an unmatched section is to list
expectedIndices(type) ==
    IF exportConfig.onlySelectedItems
    THEN indicesOf(type) \cap selectionOf(type)
    ELSE indicesOf(type)

fixedTitle(number) ==
    CASE number = 1 -> "Executive Summary"
      [] number = 2 -> "Verified Matches"
      [] number = 3 -> "Unmatched Bank Items"
      [] number = 4 -> "Unmatched Ledger Entries"

\* the sections come in the order of their fixed numbers, each under the
\* title of its number
sectionsInFixedOrder ==
    /\ \A i \in 1..Len(pdf[1]) :
        /\ pdf[1][i].number \in 1..4
        /\ pdf[1][i].title = fixedTitle(pdf[1][i].number)
    /\ \A i, j \in 1..Len(pdf[1]) :
        i < j => pdf[1][i].number < pdf[1][j].number

\* C19 (as claimed): the sections are emitted in the fixed order under the
\* fixed numbers 1..4, never renumbered; a section is emitted exactly when
\* its include flag is set and, for the two unmatched sections only, its
\* row list after selection filtering is not empty.
C19_SectionsAsClaimed ==
    exported =>
        /\ sectionsInFixedOrder
        /\ present(1) <=> exportConfig.includeSummary
        /\ present(2) <=> exportConfig.includeMatches
        /\ present(3) <=> (exportConfig.includeUnmatchedBank
                            /\ expectedIndices("bank") # {})
        /\ present(4) <=> (exportConfig.includeUnmatchedLedger
                            /\ expectedIndices("ledger") # {})

\* C19 (amended): as claimed, but the Verified Matches section too is
\* emitted only when it has rows, that is when there is a matched pair.
C19_SectionsWithRowsOnly ==
    exported =>
        /\ sectionsInFixedOrder
        /\ present(1) <=> exportConfig.includeSummary
        /\ present(2) <=> (exportConfig.includeMatches
                            /\ Len(theResult.matchedTransactions) > 0)
        /\ present(3) <=> (exportConfig.includeUnmatchedBank
                            /\ expectedIndices("bank") # {})
        /\ present(4) <=> (exportConfig.includeUnmatchedLedger
                            /\ expectedIndices("ledger") # {})

\* a document without the summary and without the bank section (only
\* selected items, no bank item selected): sections 2 and 4 keep their
\* numbers
C19_Witness ==
    /\ exported
    /\ ~exportConfig.includeSummary
    /\ exportConfig.includeUnmatchedBank
    /\ exportConfig.onlySelectedItems
    /\ selectedBankIndices = {}
    /\ Len(theResult.unmatchedBankTransactions) > 0
    /\ Len(pdf[1]) = 2
    /\ pdf[1][1].number = 2
    /\ pdf[1][2].number = 4

\* the rows of the section with the given number; none when it is left out
rowsOfSection(number) ==
    IF present(number)
    THEN (CHOOSE s \in {pdf[1][i] : i \in 1..Len(pdf[1])} :
            s.number = number).rows
    ELSE <<>>

\* the k-th smallest element of a set of indices
nthIndex(indices, k) ==
    CHOOSE i \in indices : Cardinality({j \in indices : j < i}) = k - 1

itemsOf(type) ==
    IF type = "bank" THEN theResult.unmatchedBankTransactions
    ELSE theResult.unmatchedLedgerEntries

\* one row per expected index, in the order of the collection
expectedRows(type) ==
    [k \in 1..Cardinality(expectedIndices(type)) |->
        LET tx == itemsOf(type)[nthIndex(expectedIndices(type), k) + 1]
        IN  <<tx.date, tx.description, formatCurrencyForPdf(tx.amount)>>]

\* C20: with onlySelectedItems the rows of an unmatched section are the
\* items of the whole collection whose index is in the selection at the
\* time of the export, in the collection's order; without it they are the
\* whole collection; the search term and the status filter play no part;
\* the Verified Matches rows are all matched pairs.
C20_RowsFollowSelection ==
    exported =>
        /\ exportConfig.includeUnmatchedBank =>
                rowsOfSection(3) = expectedRows("bank")
        /\ exportConfig.includeUnmatchedLedger =>
                rowsOfSection(4) = expectedRows("ledger")
        /\ exportConfig.includeMatches =>
            /\ Len(rowsOfSection(2)) = Len(theResult.matchedTransactions)
            /\ \A i \in 1..Len(theResult.matchedTransactions) :
                LET p == theResult.matchedTransactions[i]
                IN  rowsOfSection(2)[i] =
                        <<p.bankTransaction.date, p.bankTransaction.description,
                          p.ledgerTransaction.date,
                          p.ledgerTransaction.description,
                          formatCurrencyForPdf(p.bankTransaction.amount)>>

\* only the second bank item is selected while the search shows only the
\* first: the document lists the second
C20_Witness ==
    /\ exported
    /\ exportConfig.onlySelectedItems
    /\ exportConfig.includeUnmatchedBank
    /\ searchTerm = <<"f", "e", "e">>
    /\ filteredUnmatchedBank = {0}
    /\ selectedBankIndices = {1}
    /\ Len(rowsOfSection(3)) = 1
    /\ rowsOfSection(3)[1][2] = DescRent
    /\ Len(rowsOfSection(2)) = 1

\* the emitted section with the given number
sectionOf(number) ==
    CHOOSE s \in {pdf[1][i] : i \in 1..Len(pdf[1])} : s.number = number

\* C21: the count in the title of an emitted section is the number of rows
\* of that section, and the title of an unmatched section carries the
\* '[Filtered]' marker exactly when the export is restricted to the
\* selected items; the other titles never carry it.
C21_TitleCountsRows ==
    exported =>
        \A i \in 1..Len(pdf[1]) :
            LET s == pdf[1][i]
            IN  /\ s.count # None => s.count[1] = Len(s.rows)
                /\ s.number \in {2, 3, 4} => s.count # None
                /\ s.number \in {3, 4} =>
                        (s.filtered <=> exportConfig.onlySelectedItems)
                /\ s.number \in {1, 2} => ~s.filtered

\* two unmatched bank items, the first one selected, only selected items,
\* matches and ledger switched off: one bank row under '(1) [Filtered]'
C21_Witness ==
    /\ exported
    /\ Len(theResult.unmatchedBankTransactions) = 2
    /\ selectedBankIndices = {0}
    /\ exportConfig.onlySelectedItems
    /\ ~exportConfig.includeMatches
    /\ ~exportConfig.includeUnmatchedLedger
    /\ present(3)
    /\ sectionOf(3).count = Some(1)
    /\ sectionOf(3).filtered
    /\ Len(sectionOf(3).rows) = 1
    /\ ~present(2)
    /\ ~present(4)


\* C28: whenever a document is generated with onlySelectedItems true, one
\* of the two selections is non-empty: the option does not outlive the
\* selection that made it available
C28_NoStaleOption ==
    (exported /\ exportConfig.onlySelectedItems) => hasSelection

---------------------------------------------------------------------------
\* Claims about the shape of the overlay, over Spec

\* the positions of a collection of the result on screen, none without one
validIndices(type) ==
    IF result = None THEN {}
    ELSE IF type = "bank"
         THEN 0..(Len(theResult.unmatchedBankTransactions) - 1)
         ELSE 0..(Len(theResult.unmatchedLedgerEntries) - 1)

StoredStatuses == {"investigating", "cleared", "reviewed"}

\* C27: in every reachable state, for the bank collection and for the
\* ledger collection separately, the status map has only positions of
\* that collection as keys and only investigating, cleared or reviewed
\* as values ('default' is never stored), and the selection holds only
\* positions of that collection
C27_OverlayWellFormed ==
    /\ DOMAIN bankStatuses \subseteq validIndices("bank")
    /\ DOMAIN ledgerStatuses \subseteq validIndices("ledger")
    /\ \A idx \in DOMAIN bankStatuses : bankStatuses[idx] \in StoredStatuses
    /\ \A idx \in DOMAIN ledgerStatuses :
        ledgerStatuses[idx] \in StoredStatuses
    /\ selectedBankIndices \subseteq validIndices("bank")
    /\ selectedLedgerIndices \subseteq validIndices("ledger")

\* Reset was pressed on a selection while another bank item keeps its
\* status: the entries of the selected items are gone, not 'default'
C27_Witness ==
    /\ lastOp.op = "applyBulkStatus"
    /\ lastOp.status = "default"
    /\ Cardinality(DOMAIN bankStatuses) = 1
    /\ Len(theResult.unmatchedBankTransactions) = 2
    /\ ledgerStatuses = EmptyObj
    /\ selectedBankIndices = {}

\* the positions whose status differs between two status maps
changedIn(before, after) ==
    {idx \in (DOMAIN before) \cup (DOMAIN after) :
        currentStatus(before, idx) # currentStatus(after, idx)}

\* C29 as claimed: in every reachable state each selection lies within
\* the indices visible under the active search term and status filter
C29_SelectionAlwaysVisible ==
    result # None =>
        /\ selectedBankIndices \subseteq filteredUnmatchedBank
        /\ selectedLedgerIndices \subseteq filteredUnmatchedLedger

\* C29: a selection gains only indices that are visible under the active
\* search term and status filter at that moment, and a bulk status
\* action changes the status of selected items only; changing the search
\* term or the status filter leaves both selections as they are, hidden
\* items included
C29_SelectedWhileVisible ==
    [][result # None =>
        /\ (selectedBankIndices' \ selectedBankIndices)
                \subseteq filteredUnmatchedBank
        /\ (selectedLedgerIndices' \ selectedLedgerIndices)
                \subseteq filteredUnmatchedLedger
        /\ lastOp'.op = "applyBulkStatus" =>
            /\ changedIn(bankStatuses, bankStatuses')
                    \subseteq selectedBankIndices
            /\ changedIn(ledgerStatuses, ledgerStatuses')
                    \subseteq selectedLedgerIndices
        /\ lastOp'.op \in {"setSearchTerm", "setStatusFilter"} =>
            UNCHANGED <<selectedBankIndices, selectedLedgerIndices>>]_vars

\* Mark Cleared has just changed a bank item that the search term hides
C29_Witness ==
    /\ result # None
    /\ lastOp.op = "applyBulkStatus"
    /\ lastOp.status = "cleared"
    /\ trip # None
    /\ trip[1].type = "bank"
    /\ trip[1].phase = "open"
    /\ \E idx \in trip[1].indices :
        /\ ~matchesSearch(theResult.unmatchedBankTransactions[idx + 1],
                          searchTerm)
        /\ bankStatuses[idx] = "cleared"

\* how many of: a call outstanding, a result present, an error set
sessionFlags ==
    (IF isLoading THEN 1 ELSE 0) + (IF result # None THEN 1 ELSE 0)
        + (IF error # None THEN 1 ELSE 0)

\* C30: in every reachable state at most one of loading, result present
\* and error set holds, and the step that starts an attempt leaves the
\* session loading with neither a result nor an error
C30_OneOfLoadingResultError ==
    /\ [](sessionFlags <= 1)
    /\ [][lastOp'.op = "handleReconcile" =>
            (isLoading' /\ result' = None /\ error' = None)]_vars

\* an attempt has just been started: loading, no result, no error
C30_Witness ==
    /\ lastOp.op = "handleReconcile"
    /\ isLoading
    /\ error = None
    /\ result = None
    /\ pc = "reading"

---------------------------------------------------------------------------
\* Claims about the pass-through fields, over SpecSanitize

\* the raw summary object, empty when the response has none
rawSummary ==
    IF "summary" \in DOMAIN rawResult THEN rawResult.summary ELSE EmptyObj

PassThrough == {"ledgerBalance", "bankBalance", "asAtDate"}

Recomputed ==
    {"matchedCount", "unmatchedBankCount", "unmatchedLedgerCount",
     "matchedTotal", "unmatchedBankTotal", "unmatchedLedgerTotal"}

\* some pair of the raw response lacks a leg
somePairThrows ==
    \E i \in 1..Len(OrEmpty(rawResult, "matchedTransactions")) :
        pairThrows(OrEmpty(rawResult, "matchedTransactions")[i])

\* C26: in every result the sanitizer returns, ledgerBalance, bankBalance
\* and asAtDate of summary are exactly those of the raw summary, unset
\* where the raw summary or the field is absent; the six counts and
\* totals are the recomputed ones, never those of the raw summary; and
\* the sanitizer never fails because of the summary: it fails only on a
\* pair that lacks a leg
C26_PassThrough ==
    /\ returned =>
        /\ \A k \in PassThrough :
            /\ k \in DOMAIN sanitized.summary <=> k \in DOMAIN rawSummary
            /\ k \in DOMAIN rawSummary =>
                    sanitized.summary[k] = rawSummary[k]
        /\ \A k \in Recomputed :
            sanitized.summary[k] =
                recomputed(sanitized.matchedTransactions,
                           sanitized.unmatchedBankTransactions,
                           sanitized.unmatchedLedgerEntries)[k]
        /\ DOMAIN sanitized.summary \subseteq PassThrough \cup Recomputed
    /\ outcome.status = "threw" => somePairThrows

\* a result for a raw summary without balances but with its own counts
\* elsewhere: returned with asAtDate only
C26_WitnessAbsent ==
    /\ returned
    /\ "summary" \in DOMAIN rawResult
    /\ "ledgerBalance" \notin DOMAIN rawResult.summary
    /\ "ledgerBalance" \notin DOMAIN sanitized.summary
    /\ sanitized.summary.asAtDate = Date2024

\* a result for a raw summary with balances and wrong totals
C26_Witness ==
    /\ returned
    /\ "summary" \in DOMAIN rawResult
    /\ "unmatchedBankTotal" \in DOMAIN rawResult.summary
    /\ rawResult.summary.unmatchedBankTotal
            # sanitized.summary.unmatchedBankTotal
    /\ sanitized.summary.bankBalance = 499998
    /\ sanitized.summary.ledgerBalance = 500000
    /\ sanitized.summary.asAtDate = Date2024

---------------------------------------------------------------------------
\* Claims about the delimited text export, over SpecCsv

\* the three summary lines, read off result.summary
expectedSummaryLines(summary) ==
    <<<<csvCell(<<"Successfully Matched">>),
        csvCell(IntToString(summary.matchedCount)),
        csvCell(NumberToString(summary.matchedTotal))>>,
      <<csvCell(<<"Outstanding Bank Items">>),
        csvCell(IntToString(summary.unmatchedBankCount)),
        csvCell(NumberToString(summary.unmatchedBankTotal))>>,
      <<csvCell(<<"Outstanding Ledger Items">>),
        csvCell(IntToString(summary.unmatchedLedgerCount)),
        csvCell(NumberToString(summary.unmatchedLedgerTotal))>>>>

\* the lines above the three summary lines, for a company name and a clock
expectedHeading(companyName, now) ==
    (IF companyName = <<>> THEN <<>>
     ELSE <<<<<<"Company Name">>, companyName>>>>)
    \o <<<<<<"Reconciliation Report">>>>, <<<<"Generated on">>, now>>, <<>>,
         <<<<"Summary">>>>,
         <<csvCell(<<"Metric">>), csvCell(<<"Transaction Count">>),
           csvCell(<<"Net Value (GHS)">>)>>>>

\* C22: in whatever review state (selections, statuses, search term,
\* status filter, export options) the text export was made and whatever
\* was changed since, its lines are the heading for the company name and
\* the clock, then the three summary lines with the counts and totals of
\* result.summary, then an empty line: nothing of the review state enters
C22_CsvFullSummaryOnly ==
    csv # None =>
        \E companyName \in CompanyNames, now \in Clock :
            csv[1] = expectedHeading(companyName, now)
                        \o expectedSummaryLines(theResult.summary)
                        \o <<<<>>>>

\* exported with one of two bank items selected, a status set and the
\* filter on, the stale option active: still both bank items counted
C22_Witness ==
    /\ csv # None
    /\ Len(theResult.unmatchedBankTransactions) = 2
    /\ Cardinality(selectedBankIndices) = 1
    /\ bankStatuses # EmptyObj
    /\ statusFilter = "cleared"
    /\ searchTerm # <<>>
    /\ exportConfig.onlySelectedItems
    /\ csv[1][Len(csv[1]) - 2][2] = csvCell(<<"2">>)

\* the cell of the text export that holds the total of the outstanding
\* bank items
csvBankTotalCell == csv[1][Len(csv[1]) - 2][3]

\* C23: the text export, the document export and the display render an
\* amount identically, fixed-point with two decimals under one currency
\* label: the bank total in the text export is the quoted rendering of
\* the display, which is the rendering of the document
C23_OneFormatting ==
    csv # None =>
        LET total == theResult.summary.unmatchedBankTotal
        IN  /\ csvBankTotalCell = csvCell(formatCurrency(total))
            /\ formatCurrency(total) = formatCurrencyForPdf(total)

---------------------------------------------------------------------------
\* Claims about the Dashboard, over SpecTop

\* both unmatched collections, bank items first
unmatchedAll ==
    theResult.unmatchedBankTransactions \o theResult.unmatchedLedgerEntries

\* how many items come before item i: the larger ones, and the equal ones
\* that stand earlier
rankOf(i) ==
    Cardinality({j \in 1..Len(unmatchedAll) :
                    \/ unmatchedAll[j].amount > unmatchedAll[i].amount
                    \/ /\ unmatchedAll[j].amount = unmatchedAll[i].amount
                       /\ j < i})

\* C24: the top list is the first five of the concatenation (bank, then
\* ledger) in descending order of amount, equal amounts in their order
\* of the concatenation; with fewer than five items it holds every item
\* exactly once
C24_TopFiveStable ==
    (Mounted /\ activeTab = "dashboard") =>
        LET top == topUnmatched(theResult)
            n == Len(unmatchedAll)
        IN  /\ Len(top) = IF n < 5 THEN n ELSE 5
            /\ \A i \in 1..n :
                rankOf(i) < 5 => top[rankOf(i) + 1] = unmatchedAll[i]

\* six items, the sixth left out although its amount is that of the
\* fifth, and a bank item ahead of a ledger entry of the same amount
C24_Witness ==
    /\ Mounted
    /\ activeTab = "dashboard"
    /\ lastOp.op = "setActiveTab"
    /\ Len(unmatchedAll) = 6
    /\ \E q \in 1..6 :
        /\ rankOf(q) = 5
        /\ unmatchedAll[q].amount = topUnmatched(theResult)[5].amount
    /\ \E i \in 1..4 :
        /\ topUnmatched(theResult)[i] \in
                {theResult.unmatchedBankTransactions[k] :
                    k \in 1..Len(theResult.unmatchedBankTransactions)}
        /\ topUnmatched(theResult)[i + 1] \in
                {theResult.unmatchedLedgerEntries[k] :
                    k \in 1..Len(theResult.unmatchedLedgerEntries)}
        /\ topUnmatched(theResult)[i].amount
                = topUnmatched(theResult)[i + 1].amount

\* C25: the variance shown is bankBalance - ledgerBalance, and it is
\* classified balanced exactly when its absolute value is below one
\* pesewa (0.01), whatever the unmatched totals: balances a pesewa apart
\* are out of balance
C25_VarianceThreshold ==
    (Mounted /\ activeTab = "dashboard") =>
        LET summary == theResult.summary
            d == summary.bankBalance - summary.ledgerBalance
        IN  /\ variance(summary) = d
            /\ varianceClass(summary) = "balanced" <=> (d < 1 /\ -d < 1)
===========================================================================
